---- MODULE Spec2Model ----
(***************************************************************************)
(* Model of the second-brain search/indexing subsystem:                    *)
(*   - FileIndexService (app/lib/file-index.ts): versioned catalog         *)
(*     snapshot, watch relevance filter, trailing debounce, subscribers;   *)
(*   - the version-keyed search caches (app/lib/recall-index.ts and        *)
(*     app/api/search/route.ts);                                           *)
(*   - the recall endpoint (app/api/search/recall/route.ts): request       *)
(*     validation, filtering, excerpts and contexts;                       *)
(*   - the transcript parser and the session context window                *)
(*     (app/lib/recall-index.ts).                                          *)
(*                                                                         *)
(* Representation of strings.  A file name is a sequence of tokens: the    *)
(* maximal runs of non-dot characters and the single dots between them,    *)
(* so "a.deleted.md" is <<"a", ".", "deleted", ".", "md">>.  startsWith,   *)
(* endsWith and includes of the source are computed on these sequences.    *)
(* A path is a sequence of names (absolute, root = <<>>).                  *)
(***************************************************************************)
EXTENDS Integers, Sequences, FiniteSets, TLC

VARIABLES
  constructed,     \* the FileIndexService singleton exists
  now,             \* wall clock / event-loop time in ms (Date.now())
  fs,              \* set of paths of the regular files that exist on disk
  heap,            \* FileNode objects: object id -> [name, path, category, type]
  snapshot,        \* FileIndexService.snapshot: [version, updatedAt, files (object ids)]
  timers,          \* timers pending in the runtime: set of [id, due]
  rebuildTimer,    \* FileIndexService.rebuildTimer: timer id, 0 = null
  listeners,       \* emitter's 'change' listener array, in registration order
  subs,            \* unsubscribe closures handed out and not yet called
  recallSearchIndex, \* recall-index.ts module variable: index object id, 0 = null
  indexHeap,       \* RecallSearchIndex objects: id -> [version, updatedAt, builtAt, ...]
  searchIndex,     \* search/route.ts module variable: Fuse object id, 0 = null
  indexVersion,    \* search/route.ts module variable
  fuseHeap,        \* Fuse objects of search/route.ts: id -> [version of the snapshot read]
  held,            \* snapshots returned by getSnapshot and still held by consumers
  request,         \* recall endpoint: body of the request handled last
  response,        \* recall endpoint: its outcome
  hist             \* history (ghost) record used only by the properties

vars == <<constructed, now, fs, heap, snapshot, timers, rebuildTimer,
          listeners, subs, recallSearchIndex, indexHeap, searchIndex, indexVersion,
          fuseHeap, held, request, response, hist>>

-----------------------------------------------------------------------------
(* Sequence helpers                                                        *)

Last(s) == s[Len(s)]

\* s.startsWith(p)
StartsWith(s, p) == Len(s) >= Len(p) /\ SubSeq(s, 1, Len(p)) = p

\* s.endsWith(p)
EndsWith(s, p) == Len(s) >= Len(p) /\ SubSeq(s, Len(s) - Len(p) + 1, Len(s)) = p

\* s.includes(p)
Includes(s, p) ==
  \E i \in 1..(Len(s) - Len(p) + 1) : SubSeq(s, i, i + Len(p) - 1) = p

\* the elements s[k], k >= i in order, whose index is in keep
SelectIdx(s, keep, i) ==
  LET kept == SelectSeq([k \in 1..Len(s) |-> [index |-> k, element |-> s[k]]],
                        LAMBDA e : e.index >= i /\ e.index \in keep)
  IN  [k \in 1..Len(kept) |-> kept[k].element]

-----------------------------------------------------------------------------
(* Paths and configuration (file-index.ts:8-62)                            *)

DOT == "."
MD_EXT == <<DOT, "md">>
JSONL_EXT == <<DOT, "jsonl">>
DELETED_INFIX == <<DOT, "deleted", DOT>>
PARENT == <<DOT, DOT>>
SELF == <<DOT>>

RECURSIVE ResolveSegments(_, _)
\* path.resolve(path.normalize(p)) of an absolute path: "." segments are
\* dropped, ".." removes the segment before it (and is dropped at the root)
ResolveSegments(p, acc) ==
  IF p = <<>> THEN acc
  ELSE IF Head(p) = SELF \/ Head(p) = <<>> THEN ResolveSegments(Tail(p), acc)
  ELSE IF Head(p) = PARENT
       THEN ResolveSegments(Tail(p), IF acc = <<>> THEN <<>> ELSE SubSeq(acc, 1, Len(acc) - 1))
  ELSE ResolveSegments(Tail(p), Append(acc, Head(p)))

normalize(inputPath) == ResolveSegments(inputPath, <<>>)

\* path.basename: the last segment, "" for the root
basename(p) == IF p = <<>> THEN <<>> ELSE Last(p)

\* path.dirname
dirname(p) == IF p = <<>> THEN <<>> ELSE SubSeq(p, 1, Len(p) - 1)

\* path.join(dir, name)
join(dir, name) == normalize(Append(dir, name))

HOME_DIR == << <<"home">> >>
OPENCLAW_HOME == join(HOME_DIR, <<DOT, "openclaw">>)
WORKSPACE_ROOT == join(OPENCLAW_HOME, <<"workspace">>)
MEMORY_DIR == join(WORKSPACE_ROOT, <<"memory">>)
CONVERSATIONS_DIR == join(WORKSPACE_ROOT, <<"conversations">>)
SESSIONS_DIR == join(join(join(OPENCLAW_HOME, <<"agents">>), <<"main">>), <<"sessions">>)

WORKSPACE_DOCS ==
  << <<"SOUL", DOT, "md">>, <<"IDENTITY", DOT, "md">>, <<"USER", DOT, "md">>,
     <<"RULES", DOT, "md">>, <<"TOOLS", DOT, "md">>, <<"AGENTS", DOT, "md">>,
     <<"HEARTBEAT", DOT, "md">> >>

LONG_TERM_FILE == <<"MEMORY", DOT, "md">>

WORKSPACE_DOC_SET == {WORKSPACE_DOCS[i] : i \in 1..Len(WORKSPACE_DOCS)}

EXCLUDED_REPORT_NAMES == WORKSPACE_DOC_SET \cup {LONG_TERM_FILE}

isHidden(name) == StartsWith(name, <<DOT>>)

isWorkspaceRootFile(filePath) == normalize(dirname(filePath)) = normalize(WORKSPACE_ROOT)

\* `${normalize(root)}${path.sep}` is a prefix of p: p lies strictly below root
UnderRoot(p, root) == Len(p) > Len(normalize(root)) /\ StartsWith(p, normalize(root))

-----------------------------------------------------------------------------
(* The disk.  DiskOrder lists every file the model can put on disk, in the  *)
(* order readdirSync reports directory entries.                            *)

F_memA == join(MEMORY_DIR, <<"a", DOT, "md">>)
F_memDel == join(MEMORY_DIR, <<"a", DOT, "deleted", DOT, "md">>)
F_memHidden == join(MEMORY_DIR, <<DOT, "h", DOT, "md">>)
F_memTxt == join(MEMORY_DIR, <<"n", DOT, "txt">>)
F_memSubB == join(join(MEMORY_DIR, <<"sub">>), <<"b", DOT, "md">>)
F_convC == join(CONVERSATIONS_DIR, <<"c", DOT, "md">>)
F_convJsonl == join(CONVERSATIONS_DIR, <<"c", DOT, "jsonl">>)
F_long == join(WORKSPACE_ROOT, LONG_TERM_FILE)
F_soul == join(WORKSPACE_ROOT, <<"SOUL", DOT, "md">>)
F_report == join(WORKSPACE_ROOT, <<"r", DOT, "md">>)
F_wsJsonl == join(WORKSPACE_ROOT, <<"r", DOT, "jsonl">>)
F_wsSub == join(join(WORKSPACE_ROOT, <<"sub">>), <<"x", DOT, "md">>)
F_sess == join(SESSIONS_DIR, <<"s", DOT, "jsonl">>)
F_sessDel == join(SESSIONS_DIR, <<"s", DOT, "jsonl", DOT, "deleted", DOT, "1">>)
F_sessDelJsonl == join(SESSIONS_DIR, <<"s", DOT, "deleted", DOT, "jsonl">>)
F_sessHidden == join(SESSIONS_DIR, <<DOT, "s", DOT, "jsonl">>)
F_sessMd == join(SESSIONS_DIR, <<"s", DOT, "md">>)
F_sessSub == join(join(SESSIONS_DIR, <<"sub">>), <<"t", DOT, "jsonl">>)
F_outside == join(OPENCLAW_HOME, <<"x", DOT, "md">>)
F_memDay == join(MEMORY_DIR, <<"2026-02-28", DOT, "md">>)
F_memBadDay == join(MEMORY_DIR, <<"2026-02-30", DOT, "md">>)
F_convDay == join(CONVERSATIONS_DIR, <<"chat-2026-03-01", DOT, "md">>)
F_sessBig == join(SESSIONS_DIR, <<"big", DOT, "jsonl">>)
F_sessEmpty == join(SESSIONS_DIR, <<"empty", DOT, "jsonl">>)

DiskOrder ==
  << F_memA, F_memDel, F_memHidden, F_memTxt, F_memSubB, F_convC, F_convJsonl,
     F_long, F_soul, F_report, F_wsJsonl, F_wsSub, F_sess, F_sessDel,
     F_sessDelJsonl, F_sessHidden, F_sessMd, F_sessSub, F_outside,
     F_memDay, F_memBadDay, F_convDay, F_sessBig, F_sessEmpty >>

AllPaths == {DiskOrder[i] : i \in 1..Len(DiskOrder)}

\* fs.readdirSync(dirPath, {withFileTypes: true}) restricted to entry.isFile():
\* the regular files directly in dirPath, in directory order
FileEntries(disk, dirPath) ==
  SelectIdx(DiskOrder,
            {i \in 1..Len(DiskOrder) : DiskOrder[i] \in disk /\ dirname(DiskOrder[i]) = dirPath},
            1)

-----------------------------------------------------------------------------
(* File Catalog Scanner (file-index.ts:82-216).  A FileNode is the record  *)
(* [name, path, category, type].                                           *)

FileNode(name, path, category) ==
  [name |-> name, path |-> path, category |-> category, type |-> "file"]

\* the for-loop shared by the three directory scanners: one FileNode per
\* entry that the loop does not `continue` past
ScanEntries(kept, dirPath, category) ==
  [i \in 1..Len(kept) |->
     FileNode(basename(kept[i]), join(dirPath, basename(kept[i])), category)]

KeepMarkdown(name) == ~(isHidden(name) \/ ~EndsWith(name, MD_EXT))

scanMarkdownDirectory(disk, dirPath, category) ==
  ScanEntries(SelectSeq(FileEntries(disk, dirPath), LAMBDA e : KeepMarkdown(basename(e))),
              dirPath, category)

KeepReport(name) ==
  ~(isHidden(name) \/ ~EndsWith(name, MD_EXT) \/ name \in EXCLUDED_REPORT_NAMES)

scanWorkspaceReports(disk) ==
  ScanEntries(SelectSeq(FileEntries(disk, WORKSPACE_ROOT), LAMBDA e : KeepReport(basename(e))),
              WORKSPACE_ROOT, "Reports")

KeepTranscript(name) ==
  ~(isHidden(name) \/ ~EndsWith(name, JSONL_EXT) \/ Includes(name, DELETED_INFIX))

scanSessionTranscripts(disk) ==
  ScanEntries(SelectSeq(FileEntries(disk, SESSIONS_DIR), LAMBDA e : KeepTranscript(basename(e))),
              SESSIONS_DIR, "Sessions")

RECURSIVE ScanWorkspaceDocs(_, _)
ScanWorkspaceDocs(disk, i) ==
  IF i > Len(WORKSPACE_DOCS) THEN <<>>
  ELSE (IF join(WORKSPACE_ROOT, WORKSPACE_DOCS[i]) \in disk
        THEN <<FileNode(WORKSPACE_DOCS[i], join(WORKSPACE_ROOT, WORKSPACE_DOCS[i]), "Workspace Docs")>>
        ELSE <<>>)
       \o ScanWorkspaceDocs(disk, i + 1)

scanAllFiles(disk) ==
  scanMarkdownDirectory(disk, MEMORY_DIR, "Memory")
  \o scanMarkdownDirectory(disk, CONVERSATIONS_DIR, "Conversations")
  \o (IF join(WORKSPACE_ROOT, LONG_TERM_FILE) \in disk
      THEN <<FileNode(LONG_TERM_FILE, join(WORKSPACE_ROOT, LONG_TERM_FILE), "Long-term")>>
      ELSE <<>>)
  \o ScanWorkspaceDocs(disk, 1)
  \o scanWorkspaceReports(disk)
  \o scanSessionTranscripts(disk)

-----------------------------------------------------------------------------
(* Watch relevance filter (file-index.ts:218-243)                          *)

\* the filter without the soft-delete check
isTrackedFile_NoDeletedCheck(filePath) ==
  LET normalizedPath == normalize(filePath)
      base == basename(normalizedPath)
  IN  IF base = <<>> \/ isHidden(base) THEN FALSE
      ELSE IF UnderRoot(normalizedPath, MEMORY_DIR) \/ UnderRoot(normalizedPath, CONVERSATIONS_DIR)
           THEN EndsWith(base, MD_EXT)
      ELSE IF isWorkspaceRootFile(normalizedPath) THEN EndsWith(base, MD_EXT)
      ELSE IF UnderRoot(normalizedPath, SESSIONS_DIR) THEN EndsWith(base, JSONL_EXT)
      ELSE FALSE

isTrackedFile(filePath) ==
  LET normalizedPath == normalize(filePath)
      base == basename(normalizedPath)
  IN  IF base = <<>> \/ isHidden(base) \/ Includes(base, DELETED_INFIX) THEN FALSE
      ELSE IF UnderRoot(normalizedPath, MEMORY_DIR) \/ UnderRoot(normalizedPath, CONVERSATIONS_DIR)
           THEN EndsWith(base, MD_EXT)
      ELSE IF isWorkspaceRootFile(normalizedPath) THEN EndsWith(base, MD_EXT)
      ELSE IF UnderRoot(normalizedPath, SESSIONS_DIR) THEN EndsWith(base, JSONL_EXT)
      ELSE FALSE

-----------------------------------------------------------------------------
(* Bounds of the model                                                      *)

MaxTime == 375        \* the clock stops advancing at this time (ms)
ShortTime == 150      \* the same, in the specifications that need one debounced rebuild
MaxBurst == 3         \* relevant filesystem events in one burst
MaxListeners == 2     \* length of the emitter's listener array

\* amounts of time the clock advances by in one step (ms)
TickSteps == {75}

\* files present when the process starts
InitialDisks == { {F_long}, {F_memA, F_memSubB, F_sess} }

\* files the watchers report events for in the service specification
WatchedPaths == {F_memA, F_memTxt}

Consumer == {"c1", "c2"}

Listener == {"l1", "l2"}

\* listeners whose body throws when invoked
ThrowingListeners == {"l2"}

-----------------------------------------------------------------------------
(* FileIndexService (file-index.ts:245-342)                                 *)

DEBOUNCE_MS == 150

SetMax(S) == CHOOSE x \in S : \A y \in S : y <= x

SetMin(S) == CHOOSE x \in S : \A y \in S : x <= y

Range(f) == {f[x] : x \in DOMAIN f}

\* Math.min / Math.max
Min2(a, b) == IF a <= b THEN a ELSE b
Max2(a, b) == IF a >= b THEN a ELSE b

NoHandle == [valid |-> FALSE, version |-> 0, updatedAt |-> 0, files |-> <<>>]

\* the object ids reachable from the service's snapshot and from the
\* snapshots consumers still hold; everything else is garbage
Reachable(snap, handles) ==
  Range(snap.files) \cup UNION {Range(handles[c].files) : c \in DOMAIN handles}

Collect(h, snap, handles) ==
  [id \in (DOMAIN h) \cap Reachable(snap, handles) |-> h[id]]

\* getSnapshot(): a new snapshot object and a new files array holding the
\* same FileNode objects (`[...this.snapshot.files]`)
getSnapshot(snap) ==
  [valid |-> TRUE, version |-> snap.version, updatedAt |-> snap.updatedAt,
   files |-> [i \in 1..Len(snap.files) |-> snap.files[i]]]

\* a rebuild that publishes without incrementing the version
NewSnapshot_SameVersion(old, time, files) ==
  [version |-> old.version, updatedAt |-> time, files |-> files]

\* a rebuild that updates the published object field by field and stops
\* after the version
NewSnapshot_Partial(old, time, files) ==
  [version |-> old.version + 1, updatedAt |-> old.updatedAt, files |-> old.files]

\* the snapshot object rebuildIndex assigns to this.snapshot
NewSnapshot(old, time, files) ==
  [version |-> old.version + 1, updatedAt |-> time, files |-> files]

\* what a holder of `files` (an array of FileNode references) reads through it
Deref(h, files) == [i \in 1..Len(files) |-> h[files[i]]]

RECURSIVE Deliveries(_, _)
\* EventEmitter.emit: the listeners are called in registration order with
\* the same argument; a listener that throws ends the emit (the exception
\* propagates to the caller of emit)
Deliveries(ls, arg) ==
  IF ls = <<>> THEN <<>>
  ELSE <<[listener |-> Head(ls), version |-> arg.version]>>
       \o (IF Head(ls) \in ThrowingListeners THEN <<>> ELSE Deliveries(Tail(ls), arg))

EmitThrows(ls) == \E i \in 1..Len(ls) : ls[i] \in ThrowingListeners

\* the versions of the snapshots that are still referenced
LiveVersions(snap, handles) ==
  {snap.version} \cup {handles[c].version : c \in {x \in DOMAIN handles : handles[x].valid}}

\* the assignment to this.snapshot and the emit of rebuildIndex: `scanned`
\* is the scan result, `ids` the references to its nodes, `snap` the new
\* snapshot object
PublishSnapshot(cause, scanned, ids, snap) ==
  /\ snapshot' = snap
  /\ heap' = Collect([id \in (DOMAIN heap) \cup Range(ids) |->
                        IF id \in Range(ids) THEN scanned[id[2]] ELSE heap[id]],
                     snap, held)
  /\ hist' = [hist EXCEPT
                !.rebuilds = @ + 1,
                !.published = [v \in LiveVersions(snap, held) \cap ((DOMAIN @) \cup {snap.version}) |->
                                 IF v = snap.version THEN [updatedAt |-> now, files |-> scanned]
                                 ELSE @[v]],
                !.notified = Deliveries(listeners, getSnapshot(snap)),
                !.registered = subs,
                !.threw = EmitThrows(listeners),
                !.burstRebuilds = IF cause = "timer" THEN @ + 1 ELSE @,
                !.catalogEpoch = [builds |-> 0, returned |-> {}]]

\* the scan result as FileNode objects of this rebuild
StoreScan(cause, scanned, ids) ==
  PublishSnapshot(cause, scanned, ids, NewSnapshot(snapshot, now, ids))

\* rebuildIndex(): scan, replace the snapshot, notify
rebuildIndex(cause) ==
  StoreScan(cause, scanAllFiles(fs),
            [i \in 1..Len(scanAllFiles(fs)) |-> <<hist.rebuilds + 1, i>>])

\* new FileIndexService(): rebuildIndex(); startWatcher()
Construct ==
  /\ ~constructed
  /\ hist.rebuilds = 0
  /\ constructed' = TRUE
  /\ rebuildIndex("construct")
  /\ UNCHANGED <<now, fs, timers, rebuildTimer, listeners, subs, recallSearchIndex,
                 indexHeap, searchIndex, indexVersion, fuseHeap, held, request,
                 response>>

\* clearTimeout(handle): the timer leaves the runtime's pending set
ClearTimeout(pending, handle) == {t \in pending : t.id # handle}

\* a handle that no pending timer has
FreshTimerId(pending) == IF pending = {} THEN 1 ELSE SetMax({t.id : t \in pending}) + 1

\* scheduleRebuild() without the clearTimeout
ScheduledTimers_NoClear(pending, handle, time) ==
  pending \cup {[id |-> FreshTimerId(pending), due |-> time + DEBOUNCE_MS]}

\* scheduleRebuild() that cancels a pending timer without arming a new one
ScheduledTimers_CancelOnly(pending, handle, time) ==
  IF handle # 0 THEN ClearTimeout(pending, handle)
  ELSE pending \cup {[id |-> FreshTimerId(pending), due |-> time + DEBOUNCE_MS]}

\* scheduleRebuild(): the pending timers and the handle after the call
ScheduledTimers(pending, handle, time) ==
  LET kept == IF handle # 0 THEN ClearTimeout(pending, handle) ELSE pending
  IN  kept \cup {[id |-> FreshTimerId(kept), due |-> time + DEBOUNCE_MS]}

\* the handle setTimeout returns in scheduleRebuild()
ScheduledHandle(pending, handle) ==
  FreshTimerId(IF handle # 0 THEN ClearTimeout(pending, handle) ELSE pending)

scheduleRebuild ==
  /\ timers' = ScheduledTimers(timers, rebuildTimer, now)
  /\ rebuildTimer' = ScheduledHandle(timers, rebuildTimer)

\* a timer is due: the runtime runs due timer callbacks before it delivers
\* an event that arrives at the same instant or later
TimerDue == \E t \in timers : t.due <= now

\* the disk after the change that a watch event reports
DiskAfter(disk, kind, p) ==
  CASE kind = "add" -> disk \cup {p}
    [] kind = "unlink" -> disk \ {p}
    [] OTHER -> disk

\* the event being delivered arrives less than the debounce window after
\* the previous relevant event
ContinuesBurst == hist.burstEvents > 0 /\ now - hist.lastEventAt < DEBOUNCE_MS

\* chokidar reports add / change / unlink of path p: the `schedule` callback
WatchEvent(kind, p) ==
  /\ constructed
  /\ ~TimerDue
  /\ isTrackedFile(p) /\ ContinuesBurst => hist.burstEvents < MaxBurst
  /\ IF kind = "add" THEN p \notin fs ELSE p \in fs
  /\ fs' = DiskAfter(fs, kind, p)
  /\ IF isTrackedFile(p)
     THEN /\ scheduleRebuild
          /\ hist' = [hist EXCEPT
                        !.lastEvent = [path |-> p, scheduled |-> TRUE],
                        !.lastEventAt = now,
                        !.burstEvents = IF ContinuesBurst THEN @ + 1 ELSE 1,
                        !.burstRebuilds = IF ContinuesBurst THEN @ ELSE 0]
     ELSE /\ UNCHANGED <<timers, rebuildTimer>>
          /\ hist' = [hist EXCEPT
                        !.lastEvent = [path |-> p, scheduled |-> FALSE]]
  /\ UNCHANGED <<constructed, now, heap, snapshot, listeners, subs, recallSearchIndex,
                 indexHeap, searchIndex, indexVersion, fuseHeap, held, request,
                 response>>

\* how the timer callback ends.  An exception that emit() lets through is
\* caught nowhere in the service: it leaves the callback as an uncaught
\* exception, which the host either logs (a host with an uncaughtException
\* handler) or answers by ending the process (Node's default)
TimerOutcomes(throws) == IF throws THEN {"logged", "exit"} ELSE {"returned"}

\* the debounce timer fires: `this.rebuildTimer = null; this.rebuildIndex()`
TimerFire ==
  /\ constructed
  /\ \E t \in timers, outcome \in TimerOutcomes(EmitThrows(listeners)) :
       /\ t.due <= now
       /\ timers' = IF outcome = "exit" THEN {} ELSE timers \ {t}
       /\ constructed' = (outcome # "exit")
  /\ rebuildTimer' = 0
  /\ rebuildIndex("timer")
  /\ UNCHANGED <<now, fs, listeners, subs, recallSearchIndex, indexHeap,
                 searchIndex, indexVersion, fuseHeap, held, request, response>>

\* time passes; it does not pass a pending timer's due time without the
\* timer firing
TickUntil(limit) ==
  /\ constructed
  /\ ~TimerDue
  /\ \E d \in TickSteps :
       LET target == IF timers = {} THEN now + d
                     ELSE SetMin({now + d} \cup {t.due : t \in timers})
       IN  /\ target <= limit
           /\ now' = target
  /\ UNCHANGED <<hist, constructed, fs, heap, snapshot, timers, rebuildTimer, listeners, subs,
                 recallSearchIndex, indexHeap, searchIndex, indexVersion, fuseHeap,
                 held, request, response>>

\* a request handler (api/files, api/updates) or any other consumer calls
\* getSnapshot() and keeps the result
GetSnapshot(c) ==
  /\ constructed
  /\ held' = [held EXCEPT ![c] = getSnapshot(snapshot)]
  /\ heap' = Collect(heap, snapshot, held')
  /\ hist' = [hist EXCEPT
                !.published = [v \in LiveVersions(snapshot, held') \cap DOMAIN @ |-> @[v]]]
  /\ UNCHANGED <<constructed, now, fs, snapshot, timers, rebuildTimer, listeners, subs,
                 recallSearchIndex, indexHeap, searchIndex, indexVersion, fuseHeap,
                 request, response>>

\* subscribe(listener): emitter.on('change', listener); the unsubscribe
\* closure is handed to the caller
Subscribe(l) ==
  /\ constructed
  /\ Len(listeners) < MaxListeners
  /\ listeners' = Append(listeners, l)
  /\ subs' = [subs EXCEPT ![l] = @ + 1]
  /\ UNCHANGED <<hist, constructed, now, fs, heap, snapshot, timers, rebuildTimer,
                 recallSearchIndex, indexHeap, searchIndex, indexVersion, fuseHeap,
                 held, request, response>>

\* emitter.off('change', l): removes the most recently added instance of l
RemoveListener(ls, l) ==
  IF \E i \in 1..Len(ls) : ls[i] = l
  THEN LET k == SetMax({i \in 1..Len(ls) : ls[i] = l})
       IN  SubSeq(ls, 1, k - 1) \o SubSeq(ls, k + 1, Len(ls))
  ELSE ls

\* the caller invokes an unsubscribe closure it has not invoked before
Unsubscribe(l) ==
  /\ constructed
  /\ subs[l] > 0
  /\ listeners' = RemoveListener(listeners, l)
  /\ subs' = [subs EXCEPT ![l] = @ - 1]
  /\ UNCHANGED <<hist, constructed, now, fs, heap, snapshot, timers, rebuildTimer,
                 recallSearchIndex, indexHeap, searchIndex, indexVersion, fuseHeap,
                 held, request, response>>

-----------------------------------------------------------------------------
(* Times.  A time is [day, ms]: days since 1970-01-01 and the millisecond   *)
(* of that day.                                                             *)

MS_PER_DAY == 86400000

\* days since the epoch of the proleptic Gregorian day (y, m, d), 1 <= m <= 12
DaysFromCivil(y0, m, d) ==
  LET y == IF m <= 2 THEN y0 - 1 ELSE y0
      era == y \div 400
      yoe == y - era * 400
      mp == (m + 9) % 12
      doy == (153 * mp + 2) \div 5 + d - 1
      doe == yoe * 365 + yoe \div 4 - yoe \div 100 + doy
  IN  era * 146097 + doe - 719468

\* the Gregorian day [y, m, d] of a number of days since the epoch
CivilFromDays(z0) ==
  LET z == z0 + 719468
      era == z \div 146097
      doe == z - era * 146097
      yoe == (doe - doe \div 1460 + doe \div 36524 - doe \div 146096) \div 365
      doy == doe - (365 * yoe + yoe \div 4 - yoe \div 100)
      mp == (5 * doy + 2) \div 153
      d == doy - (153 * mp + 2) \div 5 + 1
      m == IF mp < 10 THEN mp + 3 ELSE mp - 9
      y == yoe + era * 400 + (IF m <= 2 THEN 1 ELSE 0)
  IN  [y |-> y, m |-> m, d |-> d]

\* Date.UTC(year, monthIndex, day) in days: years 0..99 mean 1900..1999,
\* out-of-range months and days carry over
DateUTCDays(year, monthIndex, day) ==
  LET fullYear == IF year >= 0 /\ year <= 99 THEN 1900 + year ELSE year
      y == fullYear + monthIndex \div 12
      m == monthIndex % 12
  IN  DaysFromCivil(y, m + 1, 1) + (day - 1)

Time(day, ms) == [day |-> day, ms |-> ms]

\* a > b on times
After(a, b) == a.day > b.day \/ (a.day = b.day /\ a.ms > b.ms)

\* the value parseDateBoundary returns for "no bound" (null)
NoBound == Time(-1000000, 0)

-----------------------------------------------------------------------------
(* File contents and the Recall Document Builder (recall-index.ts:46-307).  *)
(* A markdown text is a sequence of words; a transcript is a sequence of    *)
(* lines, each the record of a message entry.  A RecallDocument is          *)
(* [id, kind, path, name, category, content, contextSource, timestampMs]    *)
(* with id = [path, line] (line 0 for a markdown document).                 *)

\* the value null of a timestamp
NoTimestamp == NoBound

\* messages in the long transcript of the model
MaxMessages == 201

WHITESPACE == {" ", "\t", "\n"}

RECURSIVE TrimStart(_)
TrimStart(s) == IF s # <<>> /\ Head(s) \in WHITESPACE THEN TrimStart(Tail(s)) ELSE s

RECURSIVE TrimEnd(_)
TrimEnd(s) ==
  IF s # <<>> /\ Last(s) \in WHITESPACE THEN TrimEnd(SubSeq(s, 1, Len(s) - 1)) ELSE s

\* String.prototype.trim on a sequence of characters
Trim(s) == TrimEnd(TrimStart(s))

\* the `timestamp` property of a record: a number (ok: it is finite), a
\* string (ok: Date.parse accepts it, and gives `at`), or anything else
Timestamp(t, ok, at) == [t |-> t, ok |-> ok, at |-> at]
TsAbsent == Timestamp("undefined", FALSE, NoTimestamp)
TsNumber(at) == Timestamp("number", TRUE, at)
TsText(at) == Timestamp("string", TRUE, at)
TsGarbage == Timestamp("string", FALSE, NoTimestamp)

\* a part of an array content: a string, an object {type, text} (hasText:
\* its text is a string), or anything else
StringPart(s) == [t |-> "string", type |-> "", hasText |-> FALSE, s |-> s]
ObjectPart(type, hasText, s) == [t |-> "object", type |-> type, hasText |-> hasText, s |-> s]
OtherPart == [t |-> "other", type |-> "", hasText |-> FALSE, s |-> <<>>]

\* the `content` property of a message: a string, an array of parts, or
\* anything else
StringContent(s) == [t |-> "string", s |-> s, a |-> <<>>]
ArrayContent(a) == [t |-> "array", s |-> <<>>, a |-> a]
OtherContent == [t |-> "other", s |-> <<>>, a |-> <<>>]

\* a line of a transcript: blank, or text that JSON.parse rejects
\* ("invalid") or turns into null, a scalar or an object {type, message,
\* timestamp}; `message` is an object {role, content, timestamp} or not
Line(json, type, isObject, role, content, messageTimestamp, timestamp) ==
  [json |-> json, type |-> type,
   message |-> [isObject |-> isObject, role |-> role, content |-> content,
                timestamp |-> messageTimestamp],
   timestamp |-> timestamp]

BlankLine == Line("blank", "", FALSE, "", OtherContent, TsAbsent, TsAbsent)
InvalidLine == Line("invalid", "", FALSE, "", OtherContent, TsAbsent, TsAbsent)
NullLine == Line("null", "", FALSE, "", OtherContent, TsAbsent, TsAbsent)

\* the line of a message entry with a string content
Message(role, text, timestamp) ==
  Line("object", "message", TRUE, role, StringContent(text),
       IF timestamp = NoTimestamp THEN TsAbsent ELSE TsNumber(timestamp), TsAbsent)

\* fs.readFileSync(p, 'utf-8') of a markdown file
MarkdownText(p) ==
  CASE p = F_memDay -> <<"hit">>
    [] p = F_memBadDay -> <<"near">>
    [] p = F_convDay -> <<"hit">>
    [] p = F_memA -> <<"far">>
    [] p = F_long -> <<"near">>
    [] p = F_report -> <<"hit">>
    [] OTHER -> <<"miss">>

\* the lines of a transcript file: s.jsonl has messages at noon and at the
\* last millisecond of 2026-02-28, one without a timestamp and one the
\* engine does not match; big.jsonl has MaxMessages - 1 undated messages
\* followed by a dated one that matches less well; empty.jsonl has no line
\* that holds a user or assistant message with text
SessionLines(p) ==
  CASE p = F_sess ->
         << Message("user", <<"hit">>, Time(20512, 43200000)),
            Message("assistant", <<"near">>, NoTimestamp),
            Message("user", <<"far">>, Time(20512, MS_PER_DAY - 1)),
            Message("assistant", <<"miss">>, Time(20513, 0)) >>
    [] p = F_sessBig ->
         [i \in 1..MaxMessages |->
            IF i < MaxMessages THEN Message("user", <<"hit">>, NoTimestamp)
            ELSE Message("assistant", <<"near">>, Time(20512, 43200000))]
    [] p = F_sessEmpty ->
         << InvalidLine, BlankLine, NullLine,
            Line("object", "session", FALSE, "", OtherContent, TsAbsent, TsNumber(Time(20512, 0))),
            Line("object", "message", TRUE, "toolResult", StringContent(<<"hit">>), TsAbsent, TsAbsent),
            Line("object", "message", TRUE, "assistant",
                 ArrayContent(<<ObjectPart("thinking", TRUE, <<"hit">>)>>), TsAbsent, TsAbsent) >>
    [] OTHER -> <<>>

RECALL_CATEGORY_ORDER == <<"Memory", "Conversations", "Workspace", "Sessions">>

\* the value null of mapToRecallCategory
NoCategory == "<null>"

mapToRecallCategory(category) ==
  IF category \in {"Memory", "Conversations", "Sessions"} THEN category
  ELSE IF category \in {"Long-term", "Workspace Docs", "Reports"} THEN "Workspace"
  ELSE NoCategory

\* name.match(/(\d{4})-(\d{2})-(\d{2})/) on the words file names are made
\* of: the digit groups of the first match inside the word, <<>> if none
DateInWord(word) ==
  CASE word = "2026-02-28" -> <<2026, 2, 28>>
    [] word = "2026-02-30" -> <<2026, 2, 30>>
    [] word = "chat-2026-03-01" -> <<2026, 3, 1>>
    [] OTHER -> <<>>

parseDateFromFilename(name) ==
  LET hits == {i \in 1..Len(name) : DateInWord(name[i]) # <<>>}
  IN  IF hits = {} THEN NoTimestamp
      ELSE LET match == DateInWord(name[SetMin(hits)])
               year == match[1]
               month == match[2]
               day == match[3]
               days == DateUTCDays(year, month - 1, day)
               parsed == CivilFromDays(days)
           IN  IF parsed.y # year \/ parsed.m - 1 # month - 1 \/ parsed.d # day
               THEN NoTimestamp
               ELSE Time(days, 0)

\* contextSource = <<>> stands for a document without that property
RecallDocument(path, line, kind, name, category, content, contextSource, timestampMs) ==
  [id |-> [path |-> path, line |-> line], kind |-> kind, path |-> path, name |-> name,
   category |-> category, content |-> content, contextSource |-> contextSource,
   timestampMs |-> timestampMs]

extractTextFromContentPart(part) ==
  IF part.t = "string" THEN part.s
  ELSE IF part.t # "object" THEN <<>>
  ELSE IF part.type = "thinking" THEN <<>>
  ELSE IF part.hasText THEN part.s
  ELSE <<>>

RECURSIVE Join(_, _)
\* parts.join(separator)
Join(parts, separator) ==
  IF parts = <<>> THEN <<>>
  ELSE IF Len(parts) = 1 THEN parts[1]
  ELSE parts[1] \o separator \o Join(Tail(parts), separator)

PARAGRAPH_BREAK == <<"\n", "\n">>

extractMessageText(content) ==
  IF content.t = "string" THEN Trim(content.s)
  ELSE IF content.t # "array" THEN <<>>
  ELSE Trim(Join(SelectSeq([i \in 1..Len(content.a) |->
                              Trim(extractTextFromContentPart(content.a[i]))],
                           LAMBDA text : Len(text) > 0),
                 PARAGRAPH_BREAK))

parseTimestamp(value) ==
  IF value.t = "number" /\ value.ok THEN value.at
  ELSE IF value.t = "string" /\ value.ok THEN value.at
  ELSE NoTimestamp

extractSessionTimestamp(entry, message) ==
  IF parseTimestamp(message.timestamp) # NoTimestamp THEN parseTimestamp(message.timestamp)
  ELSE parseTimestamp(entry.timestamp)

\* a loop that keeps the messages of every role
PushesMessage_AnyRole(line) ==
  /\ line.json = "object"
  /\ line.type = "message"
  /\ line.message.isObject
  /\ extractMessageText(line.message.content) # <<>>

\* the body of the loop over the lines reaches messages.push for this line
\* (a null record makes `parsed.type` throw, which the catch logs)
PushesMessage(line) ==
  /\ line.json = "object"
  /\ line.type = "message"
  /\ line.message.isObject
  /\ line.message.role \in {"user", "assistant"}
  /\ extractMessageText(line.message.content) # <<>>

SessionMessage(role, text, lineNumber, timestampMs) ==
  [role |-> role, text |-> text, lineNumber |-> lineNumber, timestampMs |-> timestampMs]

\* the array `messages` after the loop over the lines
ParseMessages(lines) ==
  SelectIdx([i \in 1..Len(lines) |->
               SessionMessage(lines[i].message.role,
                              extractMessageText(lines[i].message.content),
                              i,
                              extractSessionTimestamp(lines[i], lines[i].message))],
            {i \in 1..Len(lines) : PushesMessage(lines[i])},
            1)

\* the prefix of the centre message; "|>" stands for the glyph U+25B6
MARKER == <<"|>", " ">>
USER_LABEL == <<"U", "s", "e", "r">>
ASSISTANT_LABEL == <<"A", "s", "s", "i", "s", "t", "a", "n", "t">>

\* `${prefix}${roleLabel}: ${message.text}` for the message at `index`
ContextPart(messages, index, centerIndex) ==
  (IF index = centerIndex THEN MARKER ELSE <<>>)
  \o (IF messages[index].role = "user" THEN USER_LABEL ELSE ASSISTANT_LABEL)
  \o <<":", " ">> \o messages[index].text

\* a window of two messages before the centre and one after it
buildSessionContext_OneAfter(messages, centerIndex) ==
  Trim(Join([k \in 1..(Min2(Len(messages), centerIndex + 1) - Max2(1, centerIndex - 2) + 1) |->
               ContextPart(messages, Max2(1, centerIndex - 2) + k - 1, centerIndex)],
            PARAGRAPH_BREAK))

\* buildSessionContext, with positions counted from 1
buildSessionContext(messages, centerIndex) ==
  Trim(Join([k \in 1..(Min2(Len(messages), centerIndex + 2) - Max2(1, centerIndex - 2) + 1) |->
               ContextPart(messages, Max2(1, centerIndex - 2) + k - 1, centerIndex)],
            PARAGRAPH_BREAK))

\* messages.map(...): one document per message
SessionDocuments(messages, filePath, fileName) ==
  [i \in 1..Len(messages) |->
     RecallDocument(filePath, messages[i].lineNumber, "session", fileName, "Sessions",
                    messages[i].text, buildSessionContext(messages, i),
                    messages[i].timestampMs)]

\* parseSessionFile: a file that cannot be read gives no document
parseSessionFile(disk, filePath, fileName) ==
  IF filePath \notin disk THEN <<>>
  ELSE SessionDocuments(ParseMessages(SessionLines(filePath)), filePath, fileName)

\* the body of the loop of buildRecallSearchIndex for one catalog entry: the
\* documents it pushes
FileDocuments(disk, file) ==
  LET recallCategory == mapToRecallCategory(file.category)
  IN  IF recallCategory = NoCategory THEN <<>>
      ELSE IF EndsWith(basename(file.path), MD_EXT)
           THEN (IF file.path \in disk
                 THEN <<RecallDocument(file.path, 0, "markdown", basename(file.path),
                                       recallCategory, MarkdownText(file.path), <<>>,
                                       parseDateFromFilename(basename(file.path)))>>
                 ELSE <<>>)
      ELSE IF EndsWith(basename(file.path), JSONL_EXT) /\ recallCategory = "Sessions"
           THEN parseSessionFile(disk, file.path, basename(file.path))
      ELSE <<>>

RECURSIVE IndexDocuments(_, _)
IndexDocuments(disk, files) ==
  IF files = <<>> THEN <<>>
  ELSE FileDocuments(disk, Head(files)) \o IndexDocuments(disk, Tail(files))

-----------------------------------------------------------------------------
(* Version-keyed caches: recall-index.ts:237-328, api/search/route.ts:17-70 *)

\* the value of the categories filter meaning "no filter" (null)
NoFilter == {"<null>"}

\* the local variables of the recall handler that a request did not reach
NoLocals ==
  [reached |-> FALSE, limit |-> 0, categoryFilter |-> NoFilter, dateFromMs |-> NoBound,
   dateToMs |-> NoBound, searchLimit |-> 0, raw |-> <<>>, picked |-> <<>>]

\* a cache that is built once and never compared with the snapshot version
RecallStale_NullOnly(cache, objs, ver) == cache = 0

\* a cache that is rebuilt by every query
RecallStale_Always(cache, objs, ver) == TRUE

\* `!recallSearchIndex || recallSearchIndex.version !== snapshot.version`
RecallStale(cache, objs, ver) == cache = 0 \/ objs[cache].version # ver

\* buildRecallSearchIndex(): the index object built from the snapshot it
\* reads and from the files on disk at that moment; `fuse` is the engine
\* over `documents`
buildRecallSearchIndex(snap, time) ==
  LET files == Deref(heap, snap.files)
      indexed == SelectSeq(files, LAMBDA f : mapToRecallCategory(f.category) # NoCategory)
      markdown == SelectSeq(indexed, LAMBDA f : EndsWith(basename(f.path), MD_EXT) /\ f.path \in fs)
      sessions == SelectSeq(indexed, LAMBDA f : ~EndsWith(basename(f.path), MD_EXT)
                                                /\ EndsWith(basename(f.path), JSONL_EXT)
                                                /\ mapToRecallCategory(f.category) = "Sessions")
      categories == {mapToRecallCategory(indexed[i].category) : i \in 1..Len(indexed)}
  IN  [version |-> snap.version, updatedAt |-> snap.updatedAt, builtAt |-> time,
       documents |-> IndexDocuments(fs, files),
       totalIndexedFiles |-> Len(markdown),
       totalIndexedSessions |-> Len(sessions),
       categoriesAvailable |-> SelectSeq(RECALL_CATEGORY_ORDER, LAMBDA c : c \in categories)]

\* getRecallSearchIndex(): returns the id of the index object to use and
\* updates the module variable; a replaced index object becomes garbage
getRecallSearchIndex(kind, locals) ==
  LET snap == getSnapshot(snapshot)
      stale == RecallStale(recallSearchIndex, indexHeap, snap.version)
      id == IF stale THEN recallSearchIndex + 1 ELSE recallSearchIndex
  IN  /\ recallSearchIndex' = id
      /\ indexHeap' = IF stale
                      THEN [i \in {id} |-> buildRecallSearchIndex(getSnapshot(snapshot), now)]
                      ELSE indexHeap
      /\ hist' = [hist EXCEPT
                    !.indexBuilds = IF stale THEN @ + 1 ELSE @,
                    !.catalogEpoch = [builds |-> IF stale THEN @.builds + 1 ELSE @.builds,
                                      returned |-> @.returned \cup {id}],
                    !.lastQuery = [kind |-> kind, fetched |-> TRUE,
                                   snapVersion |-> snap.version,
                                   indexVersion |-> indexHeap'[id].version,
                                   index |-> id],
                    !.locals = locals]

\* `!searchIndex || snapshot.version !== indexVersion`
SearchStale(cache, recorded, ver) == cache = 0 \/ ver # recorded

\* ensureSearchIndex() and buildIndex() of the simple markdown search
ensureSearchIndex ==
  LET snap == getSnapshot(snapshot)
      stale == SearchStale(searchIndex, indexVersion, snap.version)
      id == IF stale THEN searchIndex + 1 ELSE searchIndex
  IN  /\ searchIndex' = id
      /\ indexVersion' = IF stale THEN getSnapshot(snapshot).version ELSE indexVersion
      /\ fuseHeap' = IF stale
                     THEN [i \in {id} |-> [version |-> getSnapshot(snapshot).version]]
                     ELSE fuseHeap
      /\ hist' = [hist EXCEPT
                    !.lastQuery = [kind |-> "search", fetched |-> TRUE,
                                   snapVersion |-> snap.version,
                                   indexVersion |-> fuseHeap'[id].version,
                                   index |-> id]]

\* GET /api/search/info: getRecallIndexInfo()
IndexInfo ==
  /\ constructed
  /\ getRecallSearchIndex("info", NoLocals)
  /\ UNCHANGED <<constructed, now, fs, heap, snapshot, timers, rebuildTimer, listeners,
                 subs, searchIndex, indexVersion, fuseHeap, held, request, response>>

\* GET /api/search?q=...: q = <<>> stands for a missing or empty parameter
SimpleSearch(q) ==
  /\ constructed
  /\ IF q = <<>> \/ Len(Trim(q)) < 2
     THEN /\ hist' = [hist EXCEPT
                        !.lastQuery = [kind |-> "search", fetched |-> FALSE,
                                       snapVersion |-> 0, indexVersion |-> 0, index |-> 0]]
          /\ UNCHANGED <<searchIndex, indexVersion, fuseHeap>>
     ELSE ensureSearchIndex
  /\ UNCHANGED <<constructed, now, fs, heap, snapshot, timers, rebuildTimer, listeners,
                 subs, recallSearchIndex, indexHeap, held, request, response>>

-----------------------------------------------------------------------------
(* Recall endpoint, request validation (api/search/recall/route.ts)         *)
(*                                                                          *)
(* A JSON value is a record [t, n, s, a]: its type tag, its number, its     *)
(* text (a sequence of characters or tokens) and its array elements.        *)
(* A Result is [ok, val, msg, arg]: a returned value or a thrown Error      *)
(* whose message is msg followed by the text arg.                           *)

\* A number is [fin, num, den]: the finite rational num / den (den > 0), or,
\* with fin = FALSE, Infinity (num = 1), -Infinity (num = -1) or NaN (num = 0).
Fin(num, den) == [fin |-> TRUE, num |-> num, den |-> den]
Infinite(sign) == [fin |-> FALSE, num |-> sign, den |-> 0]
NaN == [fin |-> FALSE, num |-> 0, den |-> 0]

J(t, n, s, a) == [t |-> t, n |-> n, s |-> s, a |-> a]
JUndef == J("undefined", Fin(0, 1), <<>>, <<>>)
JNull == J("null", Fin(0, 1), <<>>, <<>>)
JNumber(x) == J("number", x, <<>>, <<>>)
JNum(n) == JNumber(Fin(n, 1))
JStr(s) == J("string", Fin(0, 1), s, <<>>)
JArr(a) == J("array", Fin(0, 1), <<>>, a)
JBool == J("boolean", Fin(1, 1), <<>>, <<>>)

Returned(v) == [ok |-> TRUE, val |-> v, msg |-> "", arg |-> <<>>]
Thrown(m, a) == [ok |-> FALSE, val |-> {}, msg |-> m, arg |-> a]

\* String.prototype.toLowerCase on the tokens category names are made of
LowerToken(t) ==
  CASE t \in {"Memory", "MEMORY"} -> "memory"
    [] t = "Conversations" -> "conversations"
    [] t \in {"Workspace", "WORKSPACE"} -> "workspace"
    [] t = "Sessions" -> "sessions"
    [] t = "Reports" -> "reports"
    [] t = "Docs" -> "docs"
    [] t = "Long" -> "long"
    [] t = "Term" -> "term"
    [] t = "LongTerm" -> "longterm"
    [] t = "Projects" -> "projects"
    [] OTHER -> t

toLowerCase(s) == [i \in 1..Len(s) |-> LowerToken(s[i])]

\* CATEGORY_ALIASES: the own keys of the table
CATEGORY_ALIASES ==
  [k \in { <<"memory">>, <<"conversations">>, <<"workspace">>, <<"sessions">>,
           <<"reports">>, <<"workspace", " ", "docs">>, <<"workspace", "-", "docs">>,
           <<"long", "-", "term">>, <<"longterm">> } |->
     CASE k = <<"memory">> -> {"Memory"}
       [] k = <<"conversations">> -> {"Conversations"}
       [] k = <<"sessions">> -> {"Sessions"}
       [] OTHER -> {"Workspace"}]

\* keys every object literal inherits from Object.prototype: the lookup
\* CATEGORY_ALIASES[key] yields a value that is truthy and not iterable
INHERITED_KEYS == { <<"constructor">>, <<"__proto__">> }

RECURSIVE CategoriesLoop_CaseSensitive(_, _)
\* the loop without the toLowerCase() of the key
CategoriesLoop_CaseSensitive(entries, normalized) ==
  IF entries = <<>> THEN Returned(IF normalized # {} THEN normalized ELSE NoFilter)
  ELSE LET entry == Head(entries)
           key == Trim(entry.s)
       IN  IF entry.t # "string" THEN Thrown("categories must only contain strings", <<>>)
           ELSE IF key = <<>> THEN CategoriesLoop_CaseSensitive(Tail(entries), normalized)
           ELSE IF key \in DOMAIN CATEGORY_ALIASES
                THEN CategoriesLoop_CaseSensitive(Tail(entries), normalized \cup CATEGORY_ALIASES[key])
           ELSE IF key \in INHERITED_KEYS THEN Thrown("mappedCategories is not iterable", <<>>)
           ELSE Thrown("unsupported category: ", entry.s)

RECURSIVE CategoriesLoop(_, _)
\* the for-of loop of normalizeCategories over the remaining entries
CategoriesLoop(entries, normalized) ==
  IF entries = <<>> THEN Returned(IF normalized # {} THEN normalized ELSE NoFilter)
  ELSE LET entry == Head(entries)
           key == toLowerCase(Trim(entry.s))
       IN  IF entry.t # "string" THEN Thrown("categories must only contain strings", <<>>)
           ELSE IF key = <<>> THEN CategoriesLoop(Tail(entries), normalized)
           ELSE IF key \in DOMAIN CATEGORY_ALIASES
                THEN CategoriesLoop(Tail(entries), normalized \cup CATEGORY_ALIASES[key])
           ELSE IF key \in INHERITED_KEYS THEN Thrown("mappedCategories is not iterable", <<>>)
           ELSE Thrown("unsupported category: ", entry.s)

normalizeCategories(input) ==
  IF input.t \in {"undefined", "null"} THEN Returned(NoFilter)
  ELSE IF input.t # "array" THEN Thrown("categories must be an array of strings", <<>>)
  ELSE IF Len(input.a) = 0 THEN Returned(NoFilter)
  ELSE CategoriesLoop(input.a, {})

\* Number(text) on the texts of the model, which are made of decimal digits,
\* ".", "-", whitespace, letters and the word "Infinity" (one element):
\* StringToNumber of the trimmed text, that is an optional "-" followed by
\* Infinity or by a decimal literal (digits, digits "." digits?, "." digits);
\* the empty text is 0 and everything else is NaN
DigitValue(c) ==
  CASE c = "0" -> 0 [] c = "1" -> 1 [] c = "2" -> 2 [] c = "3" -> 3 [] c = "4" -> 4
    [] c = "5" -> 5 [] c = "6" -> 6 [] c = "7" -> 7 [] c = "8" -> 8 [] c = "9" -> 9
    [] OTHER -> -1

IsDigits(s) == \A i \in 1..Len(s) : DigitValue(s[i]) >= 0

RECURSIVE DigitsValue(_, _)
DigitsValue(s, acc) ==
  IF s = <<>> THEN acc ELSE DigitsValue(Tail(s), acc * 10 + DigitValue(Head(s)))

RECURSIVE Pow10(_)
Pow10(k) == IF k = 0 THEN 1 ELSE 10 * Pow10(k - 1)

\* an unsigned decimal literal
DecimalLiteral(t) ==
  LET dots == {i \in 1..Len(t) : t[i] = "."}
  IN  IF dots = {} THEN (IF t # <<>> /\ IsDigits(t) THEN Fin(DigitsValue(t, 0), 1) ELSE NaN)
      ELSE LET k == CHOOSE i \in dots : TRUE
               int == SubSeq(t, 1, k - 1)
               frac == SubSeq(t, k + 1, Len(t))
           IN  IF Cardinality(dots) = 1 /\ IsDigits(int) /\ IsDigits(frac) /\ Len(int) + Len(frac) > 0
               THEN Fin(DigitsValue(int \o frac, 0), Pow10(Len(frac)))
               ELSE NaN

Negate(x) == [x EXCEPT !.num = 0 - @]

ToNumber(text) ==
  LET t == Trim(text)
      neg == t # <<>> /\ Head(t) = "-"
      body == IF neg THEN Tail(t) ELSE t
      magnitude == IF body = <<"Infinity">> THEN Infinite(1) ELSE DecimalLiteral(body)
  IN  IF t = <<>> THEN Fin(0, 1)
      ELSE IF neg THEN Negate(magnitude) ELSE magnitude

\* Number.isFinite / Math.floor
IsFinite(x) == x.fin
Floor(x) == x.num \div x.den

DEFAULT_LIMIT == 10
MIN_LIMIT == 1
MAX_LIMIT == 50

\* normalizeLimit without the lower clamp
normalizeLimit_NoLowerClamp(value) ==
  IF value.t = "number" /\ IsFinite(value.n) THEN Min2(MAX_LIMIT, Floor(value.n))
  ELSE IF value.t = "string" /\ Trim(value.s) # <<>> /\ IsFinite(ToNumber(value.s))
       THEN Min2(MAX_LIMIT, Floor(ToNumber(value.s)))
  ELSE DEFAULT_LIMIT

normalizeLimit(value) ==
  IF value.t = "number" /\ IsFinite(value.n)
  THEN Min2(MAX_LIMIT, Max2(MIN_LIMIT, Floor(value.n)))
  ELSE IF value.t = "string" /\ Trim(value.s) # <<>>
       THEN LET parsed == ToNumber(value.s)
            IN  IF IsFinite(parsed) THEN Min2(MAX_LIMIT, Max2(MIN_LIMIT, Floor(parsed)))
                ELSE DEFAULT_LIMIT
  ELSE DEFAULT_LIMIT

-----------------------------------------------------------------------------
(* Dates.  A time is [day, ms]: days since 1970-01-01 and the millisecond   *)
(* of that day.  A date text is [pad, form, y, m, d, at]: whether it has    *)
(* surrounding whitespace; form "blank" (no characters besides whitespace), *)
(* "day" (matches /^(\d{4})-(\d{2})-(\d{2})$/, digit groups y, m, d),       *)
(* "instant" (another text Date.parse accepts, denoting the time at) or     *)
(* "garbage" (Date.parse gives NaN).                                        *)

parseDateBoundary(input, fieldName) ==
  IF input.t \in {"undefined", "null"} THEN Returned(NoBound)
  ELSE IF input.t # "string" THEN Thrown(fieldName, <<"must be a string">>)
  ELSE LET text == input.s[1]
       IN  IF text.form = "blank" THEN Returned(NoBound)
           ELSE IF text.form = "day"
                THEN LET days == DateUTCDays(text.y, text.m - 1, text.d)
                         parsed == CivilFromDays(days)
                     IN  IF parsed.y # text.y \/ parsed.m - 1 # text.m - 1 \/ parsed.d # text.d
                         THEN Thrown(fieldName, <<"must be a valid date">>)
                         ELSE IF fieldName = "date_from"
                              THEN Returned(Time(days, 0))
                              ELSE Returned(Time(days, MS_PER_DAY - 1))
           ELSE IF text.form = "garbage" THEN Thrown(fieldName, <<"must be a valid date">>)
           ELSE Returned(text.at)

-----------------------------------------------------------------------------
(* POST /api/search/recall (route.ts:318-390)                               *)

Body(t, query, limit, categories, from, to) ==
  [t |-> t, query |-> query, limit |-> limit, categories |-> categories,
   date_from |-> from, date_to |-> to]

\* a body that is valid JSON but no object: every property read on it gives
\* undefined (and throws a TypeError when the body is null)
NonObjectBody(t) == Body(t, JUndef, JUndef, JUndef, JUndef, JUndef)

Response(status, msg, arg, handled) ==
  [status |-> status, msg |-> msg, arg |-> arg, handled |-> handled, results |-> <<>>]

NoRequest == NonObjectBody("none")
NoResponse == Response(0, "", <<>>, TRUE)

\* the query the handler searches for: `typeof body.query === 'string' ?
\* body.query.trim() : ''`
QueryOf(body) == IF body.query.t = "string" THEN Trim(body.query.s) ELSE <<>>

MIN_QUERY_LENGTH == 2

\* the checks with `dateFromMs >= dateToMs` as the order check
CheckFilters_StrictOrder(categoryFilter, dateFromMs, dateToMs) ==
  IF ~categoryFilter.ok
  THEN Response(400, categoryFilter.msg, categoryFilter.arg, TRUE)
  ELSE IF ~dateFromMs.ok THEN Response(400, dateFromMs.msg, dateFromMs.arg, TRUE)
  ELSE IF ~dateToMs.ok THEN Response(400, dateToMs.msg, dateToMs.arg, TRUE)
  ELSE IF dateFromMs.val # NoBound /\ dateToMs.val # NoBound
          /\ ~After(dateToMs.val, dateFromMs.val)
       THEN Response(400, "date_from must be before or equal to date_to", <<>>, TRUE)
  ELSE Response(200, "", <<>>, TRUE)

\* the try block around the three parsers, whose first exception is the
\* response, and the order check after it; the arguments are the outcomes
\* of normalizeCategories and of the two parseDateBoundary calls
CheckFilters(categoryFilter, dateFromMs, dateToMs) ==
  IF ~categoryFilter.ok
  THEN Response(400, categoryFilter.msg, categoryFilter.arg, TRUE)
  ELSE IF ~dateFromMs.ok THEN Response(400, dateFromMs.msg, dateFromMs.arg, TRUE)
  ELSE IF ~dateToMs.ok THEN Response(400, dateToMs.msg, dateToMs.arg, TRUE)
  ELSE IF dateFromMs.val # NoBound /\ dateToMs.val # NoBound
          /\ After(dateFromMs.val, dateToMs.val)
       THEN Response(400, "date_from must be before or equal to date_to", <<>>, TRUE)
  ELSE Response(200, "", <<>>, TRUE)

\* the response of POST up to the point where the index is fetched; status
\* 200 stands for "validation passed"
Validate(body) ==
  IF body.t = "malformed" THEN Response(400, "Invalid JSON body", <<>>, TRUE)
  ELSE IF body.t = "null"
       THEN \* `body.query` on null: TypeError outside any try block
            Response(500, "TypeError", <<>>, FALSE)
  ELSE IF Len(QueryOf(body)) < MIN_QUERY_LENGTH
       THEN Response(400, "query must be at least 2 characters", <<>>, TRUE)
  ELSE CheckFilters(normalizeCategories(body.categories),
                    parseDateBoundary(body.date_from, "date_from"),
                    parseDateBoundary(body.date_to, "date_to"))

\* Fuse.js is an external library.  The model fixes the engine's verdict on
\* a document by its content, for every query the handler lets through: the
\* distance of the match (0 is a perfect match), or NO_MATCH.
NO_MATCH == -1

FuseDistance(doc) ==
  CASE doc.content = <<"hit">> -> 0
    [] doc.content = <<"near">> -> 1
    [] doc.content = <<"far">> -> 2
    [] OTHER -> NO_MATCH

\* String.prototype.indexOf finds nothing
NOT_FOUND == -1

\* the engine's report of where the content field matched: the start of the
\* first matched range, or NOT_FOUND when the match is in another field
FuseContentMatch(doc) == IF doc.content = <<"hit">> THEN 0 ELSE NOT_FOUND

RECURSIVE SortFrom(_, _)
\* the results whose score is in `scores`, by ascending score, results of
\* equal score in the order they have in `results`
SortFrom(results, scores) ==
  IF scores = {} THEN <<>>
  ELSE LET least == SetMin(scores)
       IN  SelectSeq(results, LAMBDA r : r.score = least) \o SortFrom(results, scores \ {least})

\* Array.prototype.sort((a, b) => a.score - b.score): a stable sort
SortByScore(results) == SortFrom(results, {results[i].score : i \in 1..Len(results)})

\* results.slice(0, n)
Slice(results, n) == SubSeq(results, 1, Min2(Max2(n, 0), Len(results)))

\* fuse.search(query, {limit}): the matching documents ordered by score, then
\* by position in the collection, cut to the `limit` best
FuseSearch(documents, query, limit) ==
  LET scored == [i \in 1..Len(documents) |->
                   [item |-> documents[i], score |-> FuseDistance(documents[i]),
                    contentMatch |-> FuseContentMatch(documents[i]), refIndex |-> i]]
      matched == SelectSeq(scored, LAMBDA r : r.score # NO_MATCH)
  IN  Slice(SortByScore(matched), limit)

\* a date filter that lets a document without timestamp through
isWithinDateRange_NullPasses(item, dateFromMs, dateToMs) ==
  IF dateFromMs = NoBound /\ dateToMs = NoBound THEN TRUE
  ELSE IF item.timestampMs = NoTimestamp THEN TRUE
  ELSE IF dateFromMs # NoBound /\ After(dateFromMs, item.timestampMs) THEN FALSE
  ELSE IF dateToMs # NoBound /\ After(item.timestampMs, dateToMs) THEN FALSE
  ELSE TRUE

isWithinDateRange(item, dateFromMs, dateToMs) ==
  IF dateFromMs = NoBound /\ dateToMs = NoBound THEN TRUE
  ELSE IF item.timestampMs = NoTimestamp THEN FALSE
  ELSE IF dateFromMs # NoBound /\ After(dateFromMs, item.timestampMs) THEN FALSE
  ELSE IF dateToMs # NoBound /\ After(item.timestampMs, dateToMs) THEN FALSE
  ELSE TRUE

OVERSAMPLE_FACTOR == 25
MIN_SEARCH_LIMIT == 200

\* const searchLimit = Math.max(limit * 25, 200)
SearchLimit(limit) == Max2(limit * OVERSAMPLE_FACTOR, MIN_SEARCH_LIMIT)

\* the filter callback of POST
PassesFilters(item, categoryFilter, dateFromMs, dateToMs) ==
  IF categoryFilter # NoFilter /\ item.category \notin categoryFilter THEN FALSE
  ELSE isWithinDateRange(item, dateFromMs, dateToMs)

\* the pipeline without the final slice
FilteredResults_NoSlice(rawResults, limit, categoryFilter, dateFromMs, dateToMs) ==
  SortByScore(SelectSeq(rawResults,
                        LAMBDA r : PassesFilters(r.item, categoryFilter, dateFromMs, dateToMs)))

\* rawResults.filter(...).sort(...).slice(0, limit)
FilteredResults(rawResults, limit, categoryFilter, dateFromMs, dateToMs) ==
  Slice(SortByScore(SelectSeq(rawResults,
                              LAMBDA r : PassesFilters(r.item, categoryFilter, dateFromMs, dateToMs))),
        limit)

\* ---- Excerpts and contexts (api/search/recall/route.ts:137-296).  Offsets
\* into a string count from 0, as in the source.

\* s.slice(start, end) for 0 <= start and end <= s.length
StringSlice(s, start, end) == SubSeq(s, start + 1, end)

\* the offsets at which `needle` occurs in s
Occurrences(s, needle) ==
  {i \in 0..(Len(s) - Len(needle)) : SubSeq(s, i + 1, i + Len(needle)) = needle}

\* s.indexOf(needle, from)
indexOf(s, needle, from) ==
  IF \E i \in Occurrences(s, needle) : i >= from
  THEN SetMin({i \in Occurrences(s, needle) : i >= from})
  ELSE NOT_FOUND

\* s.lastIndexOf(needle, from)
lastIndexOf(s, needle, from) ==
  IF \E i \in Occurrences(s, needle) : i <= from
  THEN SetMax({i \in Occurrences(s, needle) : i <= from})
  ELSE NOT_FOUND

getMatchIndex(result, query) ==
  IF result.contentMatch # NOT_FOUND THEN result.contentMatch
  ELSE Max2(indexOf(toLowerCase(result.item.content), toLowerCase(query), 0), 0)

\* s.replace(/\s+/g, ' ')
CollapseWhitespace(s) ==
  LET kept == SelectSeq([i \in 1..Len(s) |->
                           [c |-> s[i], first |-> i = 1 \/ s[i - 1] \notin WHITESPACE]],
                        LAMBDA x : x.c \notin WHITESPACE \/ x.first)
  IN  [i \in 1..Len(kept) |-> IF kept[i].c \in WHITESPACE THEN " " ELSE kept[i].c]

ELLIPSIS == <<".", ".", ".">>
MAX_EXCERPT_CHARS == 300
MIN_CONTEXT_RADIUS == 120

\* a window without the leading ellipsis
ExcerptOf_NoPrefix(normalizedContent, start, end) ==
  Trim(CollapseWhitespace(StringSlice(normalizedContent, start, end)))
    \o (IF end < Len(normalizedContent) THEN ELLIPSIS ELSE <<>>)

\* the window [start, end) of the content, collapsed, with its ellipses
ExcerptOf(normalizedContent, start, end) ==
  (IF start > 0 THEN ELLIPSIS ELSE <<>>)
    \o Trim(CollapseWhitespace(StringSlice(normalizedContent, start, end)))
    \o (IF end < Len(normalizedContent) THEN ELLIPSIS ELSE <<>>)

\* `if (end - start < maxChars && start > 0) start = Math.max(0, end - maxChars)`
ShiftedStart(start, end, maxChars) ==
  IF end - start < maxChars /\ start > 0 THEN Max2(0, end - maxChars) ELSE start

\* the window that starts at `start` unless the end of the content is nearer
\* than maxChars
ExcerptFrom(normalizedContent, start, maxChars) ==
  ExcerptOf(normalizedContent,
            ShiftedStart(start, Min2(Len(normalizedContent), start + maxChars), maxChars),
            Min2(Len(normalizedContent), start + maxChars))

ExcerptAround(normalizedContent, safeIndex, contextRadius, maxChars) ==
  ExcerptFrom(normalizedContent, Max2(0, safeIndex - contextRadius), maxChars)

ExcerptOfTrimmed(normalizedContent, matchIndex, queryLength, maxChars) ==
  IF normalizedContent = <<>> THEN <<>>
  ELSE IF Len(normalizedContent) <= maxChars THEN Trim(CollapseWhitespace(normalizedContent))
  ELSE ExcerptAround(normalizedContent,
                     Min2(Max2(matchIndex, 0), Len(normalizedContent) - 1),
                     Max2(MIN_CONTEXT_RADIUS, (maxChars - queryLength) \div 2),
                     maxChars)

buildExcerpt(content, matchIndex, queryLength, maxChars) ==
  ExcerptOfTrimmed(Trim(content), matchIndex, queryLength, maxChars)

\* the number of characters of `chars` that follow offset p, counted up to cap
RunStops(s, p, chars, cap, k) == k = cap \/ p + k >= Len(s) \/ s[p + k + 1] \notin chars

RunLength(s, p, chars, cap) ==
  CHOOSE k \in 0..cap : RunStops(s, p, chars, cap, k)
                          /\ \A j \in 0..(k - 1) : ~RunStops(s, p, chars, cap, j)

\* the offset of the end of the line that holds offset p
LineEnd(s, p) == p + RunLength(s, p, {c \in Range(s) : c # "\n"}, Len(s))

MAX_HEADING_LEVEL == 6

\* the lengths the `\s+` of the heading pattern can take after `hashes`
\* number signs at p: a character other than a line break has to follow
HeadingGaps(s, p, hashes) ==
  {j \in 1..RunLength(s, p + hashes, WHITESPACE, Len(s)) :
     p + hashes + j < Len(s) /\ s[p + hashes + j + 1] # "\n"}

NoHeading == [start |-> NOT_FOUND, level |-> 0, end |-> NOT_FOUND]

\* the match of /^(#{1,6})\s+.+$/m at offset p, with `hashes` number signs
\* there
HeadingWith(s, p, hashes) ==
  IF hashes \in 1..MAX_HEADING_LEVEL /\ HeadingGaps(s, p, hashes) # {}
  THEN [start |-> p, level |-> hashes,
        end |-> LineEnd(s, p + hashes + SetMax(HeadingGaps(s, p, hashes)))]
  ELSE NoHeading

HeadingAt(s, p) ==
  IF p = 0 \/ s[p] = "\n"
  THEN HeadingWith(s, p, RunLength(s, p, {"#"}, MAX_HEADING_LEVEL + 1))
  ELSE NoHeading

RECURSIVE ScanHeadings(_, _, _)
\* the loop over headingRegex.exec: the leftmost match at or after lastIndex,
\* then on from the end of that match
ScanHeadings(s, starts, lastIndex) ==
  IF \A p \in starts : p < lastIndex THEN <<>>
  ELSE <<HeadingAt(s, SetMin({p \in starts : p >= lastIndex}))>>
         \o ScanHeadings(s, starts, HeadingAt(s, SetMin({p \in starts : p >= lastIndex})).end)

Headings(s) ==
  ScanHeadings(s, {p \in 0..(Len(s) - 1) : s[p + 1] = "#" /\ HeadingAt(s, p) # NoHeading}, 0)

\* the index of the last heading that starts at or before matchIndex
ActiveHeadingIndex(headings, matchIndex) ==
  SetMax({1} \cup {i \in 1..Len(headings) :
                     \A k \in 1..i : headings[k].start <= matchIndex})

\* a section that ends at the next heading of any level
SectionEnd_AnyHeading(s, headings, active) ==
  IF active < Len(headings) THEN headings[active + 1].start ELSE Len(s)

\* the start of the first heading after `active` that is not deeper than it
SectionEnd(s, headings, active) ==
  IF \E i \in (active + 1)..Len(headings) : headings[i].level <= headings[active].level
  THEN headings[SetMin({i \in (active + 1)..Len(headings) :
                          headings[i].level <= headings[active].level})].start
  ELSE Len(s)

MAX_SECTION_CHARS == 2500

\* null and the empty string: `if (section)` takes both for "no section"
NoSection == <<>>

\* a section of any length is usable
SectionIfUsable_AnyLength(section) == section

SectionIfUsable(section) == IF Len(section) > MAX_SECTION_CHARS THEN NoSection ELSE section

SectionAmong(s, matchIndex, headings) ==
  IF headings = <<>> THEN NoSection
  ELSE IF matchIndex < headings[1].start
       THEN SectionIfUsable(Trim(StringSlice(s, 0, headings[1].start)))
  ELSE SectionIfUsable(Trim(StringSlice(s, headings[ActiveHeadingIndex(headings, matchIndex)].start,
                                        SectionEnd(s, headings,
                                                   ActiveHeadingIndex(headings, matchIndex)))))

extractMarkdownSection(content, matchIndex) == SectionAmong(content, matchIndex, Headings(content))

MIN_PARAGRAPH_CHARS == 80
FALLBACK_RADIUS == 400

\* /^#{1,6}\s/.test(paragraph)
IsHeadingOnly(paragraph) ==
  /\ RunLength(paragraph, 0, {"#"}, MAX_HEADING_LEVEL + 1) \in 1..MAX_HEADING_LEVEL
  /\ RunLength(paragraph, 0, {"#"}, MAX_HEADING_LEVEL + 1) < Len(paragraph)
  /\ paragraph[RunLength(paragraph, 0, {"#"}, MAX_HEADING_LEVEL + 1) + 1] \in WHITESPACE

\* the paragraph that starts at nextParagraphStart
NextParagraph(content, nextParagraphStart) ==
  Trim(StringSlice(content, nextParagraphStart,
                   IF indexOf(content, PARAGRAPH_BREAK, nextParagraphStart) = NOT_FOUND
                   THEN Len(content)
                   ELSE indexOf(content, PARAGRAPH_BREAK, nextParagraphStart)))

AppendParagraph(paragraph, nextParagraph) ==
  IF nextParagraph = <<>> THEN paragraph ELSE paragraph \o PARAGRAPH_BREAK \o nextParagraph

\* the look-ahead of a paragraph that ends at paragraphEnd
WithLookAhead(content, paragraph, paragraphEnd) ==
  IF paragraph = <<>> THEN <<>>
  ELSE IF (IsHeadingOnly(paragraph) \/ Len(paragraph) < MIN_PARAGRAPH_CHARS)
          /\ paragraphEnd < Len(content)
       THEN AppendParagraph(paragraph,
                            NextParagraph(content,
                                          IF StringSlice(content, paragraphEnd,
                                                         Min2(Len(content), paragraphEnd + 2))
                                               = PARAGRAPH_BREAK
                                          THEN paragraphEnd + 2 ELSE paragraphEnd))
  ELSE paragraph

\* the paragraph between the two boundaries, or the window around safeIndex
\* when there is nothing between them
ParagraphOrWindow(content, safeIndex, paragraph) ==
  IF paragraph # <<>> THEN paragraph
  ELSE Trim(StringSlice(content, Max2(0, safeIndex - FALLBACK_RADIUS),
                        Min2(Len(content), safeIndex + FALLBACK_RADIUS)))

ParagraphBetween(content, safeIndex, paragraphStart, paragraphEnd) ==
  WithLookAhead(content,
                ParagraphOrWindow(content, safeIndex,
                                  Trim(StringSlice(content, paragraphStart, paragraphEnd))),
                paragraphEnd)

ParagraphAt(content, safeIndex) ==
  ParagraphBetween(content, safeIndex,
                   IF lastIndexOf(content, PARAGRAPH_BREAK, safeIndex) = NOT_FOUND THEN 0
                   ELSE lastIndexOf(content, PARAGRAPH_BREAK, safeIndex) + 2,
                   IF indexOf(content, PARAGRAPH_BREAK, safeIndex) = NOT_FOUND
                   THEN Len(content)
                   ELSE indexOf(content, PARAGRAPH_BREAK, safeIndex))

extractMarkdownParagraph(content, matchIndex) ==
  ParagraphAt(content, Min2(Max2(matchIndex, 0), Max2(0, Len(content) - 1)))

MAX_CONTEXT_CHARS == 2200

Truncated(trimmed, maxChars) ==
  IF Len(trimmed) <= maxChars THEN trimmed
  ELSE Trim(StringSlice(trimmed, 0, maxChars)) \o ELLIPSIS

normalizeContext(context, maxChars) == Truncated(Trim(context), maxChars)

ContextOfSection(item, matchIndex, section) ==
  IF section # NoSection THEN normalizeContext(section, MAX_CONTEXT_CHARS)
  ELSE normalizeContext(extractMarkdownParagraph(item.content, matchIndex), MAX_CONTEXT_CHARS)

buildContext(item, matchIndex) ==
  IF item.kind = "session"
  THEN normalizeContext(IF item.contextSource # <<>> THEN item.contextSource ELSE item.content,
                        MAX_CONTEXT_CHARS)
  ELSE ContextOfSection(item, matchIndex, extractMarkdownSection(item.content, matchIndex))

\* the local variables of the handler when it leaves the try block: limit,
\* and the filters as far as the parsers got
FilterLocals(limit, categoryFilter, dateFromMs, dateToMs) ==
  [NoLocals EXCEPT
     !.reached = TRUE,
     !.limit = limit,
     !.categoryFilter = IF categoryFilter.ok THEN categoryFilter.val ELSE NoFilter,
     !.dateFromMs = IF categoryFilter.ok /\ dateFromMs.ok THEN dateFromMs.val ELSE NoBound,
     !.dateToMs = IF categoryFilter.ok /\ dateFromMs.ok /\ dateToMs.ok
                  THEN dateToMs.val ELSE NoBound]

\* the local variables of the handler once the query has been accepted
ValidationLocals(body) ==
  IF body.t \in {"malformed", "null"} \/ Len(QueryOf(body)) < MIN_QUERY_LENGTH THEN NoLocals
  ELSE FilterLocals(normalizeLimit(body.limit),
                    normalizeCategories(body.categories),
                    parseDateBoundary(body.date_from, "date_from"),
                    parseDateBoundary(body.date_to, "date_to"))

\* rawResults and filteredResults of the handler with the locals v
FilterRaw(v, rawResults) ==
  [raw |-> rawResults,
   filtered |-> FilteredResults(rawResults, v.limit, v.categoryFilter, v.dateFromMs, v.dateToMs)]

RunSearch(v, query, index) ==
  FilterRaw(v, FuseSearch(index.documents, query, SearchLimit(v.limit)))

\* the locals after the search: the documents of rawResults and of
\* filteredResults, by position in the index
LocalsAfterSearch(v, searched) ==
  [v EXCEPT
     !.searchLimit = SearchLimit(v.limit),
     !.raw = [i \in 1..Len(searched.raw) |-> searched.raw[i].refIndex],
     !.picked = [i \in 1..Len(searched.filtered) |-> searched.filtered[i].refIndex]]

SearchLocalsOf(v, query, index) == LocalsAfterSearch(v, RunSearch(v, query, index))

SearchLocals(body, index) == SearchLocalsOf(ValidationLocals(body), QueryOf(body), index)

\* the response list: one entry per filtered result
ResultOf(result, matchIndex, query) ==
  [path |-> result.item.path,
   name |-> result.item.name,
   category |-> result.item.category,
   excerpt |-> buildExcerpt(result.item.content, matchIndex, Len(query), MAX_EXCERPT_CHARS),
   score |-> result.score,
   context |-> buildContext(result.item, matchIndex)]

ResponseList(filteredResults, query) ==
  [Response(200, "", <<>>, TRUE) EXCEPT
     !.results = [i \in 1..Len(filteredResults) |->
                    ResultOf(filteredResults[i], getMatchIndex(filteredResults[i], query), query)]]

SearchResponseOf(v, query, index) == ResponseList(RunSearch(v, query, index).filtered, query)

SearchResponse(body, index) == SearchResponseOf(ValidationLocals(body), QueryOf(body), index)

\* the handler after validation with outcome `checked`
Respond(body, checked) ==
  IF checked.status = 200
  THEN /\ getRecallSearchIndex("recall", SearchLocals(body, indexHeap'[recallSearchIndex']))
       /\ response' = SearchResponse(body, indexHeap'[recallSearchIndex'])
  ELSE /\ response' = checked
       /\ hist' = [hist EXCEPT
                     !.lastQuery = [kind |-> "recall", fetched |-> FALSE,
                                    snapVersion |-> 0, indexVersion |-> 0, index |-> 0],
                     !.unhandled = @ \/ ~checked.handled,
                     !.locals = ValidationLocals(body)]
       /\ UNCHANGED <<recallSearchIndex, indexHeap>>

Post(body) ==
  /\ constructed
  /\ request' = body
  /\ Respond(body, Validate(body))
  /\ UNCHANGED <<constructed, now, fs, heap, snapshot, timers, rebuildTimer, listeners,
                 subs, searchIndex, indexVersion, fuseHeap, held>>

-----------------------------------------------------------------------------
(* GET /api/content (api/content/route.ts, file-index.ts:359-412).  The      *)
(* `path` parameter is [absolute, segments]; its segments may be "." and    *)
(* "..".                                                                    *)

PathArg(absolute, segments) == [absolute |-> absolute, segments |-> segments]

\* a missing or empty `path` parameter
NoPath == PathArg(FALSE, <<>>)

\* process.cwd() of the server
CWD == << <<"srv">>, <<"second-brain">> >>

\* path.resolve(path.normalize(filePath))
Resolve(filePath) ==
  IF filePath.absolute THEN normalize(filePath.segments)
  ELSE normalize(CWD \o filePath.segments)

\* fs.statSync(p).isFile() is false: p is a directory that holds a file
IsDirectory(disk, p) == \E f \in disk : Len(f) > Len(p) /\ StartsWith(f, p)

existsSync(disk, p) == p \in disk \/ IsDirectory(disk, p)

\* fs.readFileSync(p, 'utf-8')
FileContent(p) == IF EndsWith(basename(p), JSONL_EXT) THEN SessionLines(p) ELSE MarkdownText(p)

getCategoryForPath(filePath) ==
  LET normalizedPath == normalize(filePath)
  IN  IF UnderRoot(normalizedPath, MEMORY_DIR) THEN "Memory"
      ELSE IF UnderRoot(normalizedPath, CONVERSATIONS_DIR) THEN "Conversations"
      ELSE IF normalizedPath = normalize(join(WORKSPACE_ROOT, LONG_TERM_FILE)) THEN "Long-term"
      ELSE IF isWorkspaceRootFile(normalizedPath) /\ basename(normalizedPath) \in WORKSPACE_DOC_SET
           THEN "Workspace Docs"
      ELSE IF UnderRoot(normalizedPath, SESSIONS_DIR) THEN "Sessions"
      ELSE "Reports"

\* the check with the OpenClaw home directory as an allowed root
isAllowedFilePath_HomeRoot(filePath) ==
  LET normalizedPath == normalize(filePath)
      allowedRoots == {normalize(OPENCLAW_HOME), normalize(MEMORY_DIR),
                       normalize(CONVERSATIONS_DIR), normalize(SESSIONS_DIR)}
      inAllowedRoot == \E root \in allowedRoots :
                         normalizedPath = root \/ UnderRoot(normalizedPath, root)
  IN  IF ~inAllowedRoot THEN FALSE
      ELSE IF isHidden(basename(normalizedPath))
              \/ Includes(basename(normalizedPath), DELETED_INFIX) THEN FALSE
      ELSE TRUE

isAllowedFilePath(filePath) ==
  LET normalizedPath == normalize(filePath)
      allowedRoots == {normalize(WORKSPACE_ROOT), normalize(MEMORY_DIR),
                       normalize(CONVERSATIONS_DIR), normalize(SESSIONS_DIR)}
      inAllowedRoot == \E root \in allowedRoots :
                         normalizedPath = root \/ UnderRoot(normalizedPath, root)
  IN  IF ~inAllowedRoot THEN FALSE
      ELSE IF isHidden(basename(normalizedPath))
              \/ Includes(basename(normalizedPath), DELETED_INFIX) THEN FALSE
      ELSE TRUE

\* the response of GET /api/content?path=filePath on the given disk
ContentResponse(disk, filePath) ==
  LET normalizedPath == Resolve(filePath)
  IN  IF filePath = NoPath THEN Response(400, "Path required", <<>>, TRUE)
      ELSE IF ~isAllowedFilePath(normalizedPath) THEN Response(403, "Invalid path", <<>>, TRUE)
      ELSE IF ~existsSync(disk, normalizedPath) THEN Response(404, "File not found", <<>>, TRUE)
      ELSE IF normalizedPath \notin disk THEN Response(400, "Not a file", <<>>, TRUE)
      ELSE [Response(200, "", <<>>, TRUE) EXCEPT
              !.results = <<[path |-> normalizedPath,
                             name |-> basename(normalizedPath),
                             category |-> getCategoryForPath(normalizedPath),
                             content |-> FileContent(normalizedPath)]>>]

GetContent(filePath) ==
  /\ constructed
  /\ request' = [t |-> "content", path |-> filePath]
  /\ response' = ContentResponse(fs, filePath)
  /\ UNCHANGED <<hist, constructed, now, fs, heap, snapshot, timers, rebuildTimer,
                 listeners, subs, recallSearchIndex, indexHeap, searchIndex, indexVersion,
                 fuseHeap, held>>

-----------------------------------------------------------------------------
(* Consumers that write to a snapshot they were given                       *)

\* snapshot.version = ... / snapshot.updatedAt = ... on the consumer's object
MutateField(c) ==
  /\ held[c].valid
  /\ held' = [held EXCEPT ![c].version = 99, ![c].updatedAt = 99]
  /\ hist' = [hist EXCEPT !.published = [v \in LiveVersions(snapshot, held') \cap DOMAIN @ |-> @[v]]]
  /\ UNCHANGED <<constructed, now, fs, heap, snapshot, timers, rebuildTimer, listeners,
                 subs, recallSearchIndex, indexHeap, searchIndex, indexVersion, fuseHeap,
                 request, response>>

\* snapshot.files.pop() on the consumer's array
MutateFiles(c) ==
  /\ held[c].valid
  /\ held[c].files # <<>>
  /\ held' = [held EXCEPT ![c].files = SubSeq(@, 1, Len(@) - 1)]
  /\ heap' = Collect(heap, snapshot, held')
  /\ UNCHANGED <<constructed, now, fs, snapshot, timers, rebuildTimer, listeners,
                 subs, recallSearchIndex, indexHeap, searchIndex, indexVersion, fuseHeap,
                 request, response, hist>>

\* snapshot.files[i].category = 'Tampered' through the consumer's array
MutateNode(c, i) ==
  /\ held[c].valid
  /\ i \in 1..Len(held[c].files)
  /\ heap[held[c].files[i]].category # "Tampered"
  /\ heap' = [heap EXCEPT ![held[c].files[i]].category = "Tampered"]
  /\ UNCHANGED <<constructed, now, fs, snapshot, timers, rebuildTimer, listeners,
                 subs, recallSearchIndex, indexHeap, searchIndex, indexVersion, fuseHeap,
                 held, request, response, hist>>

-----------------------------------------------------------------------------
(* Specifications                                                           *)

NoNode == FileNode(<<>>, <<>>, "")

\* the process before the service is constructed, on one of the given
\* disks, with one of the given inputs as the request under consideration
InitWith(disks, requests) ==
  /\ constructed = FALSE
  /\ now = 0
  /\ fs \in disks
  /\ heap = [id \in {} |-> NoNode]
  /\ snapshot = [version |-> 0, updatedAt |-> 0, files |-> <<>>]
  /\ timers = {}
  /\ rebuildTimer = 0
  /\ listeners = <<>>
  /\ subs = [l \in Listener |-> 0]
  /\ recallSearchIndex = 0
  /\ indexHeap = [i \in {} |-> buildRecallSearchIndex(snapshot, 0)]
  /\ searchIndex = 0
  /\ indexVersion = -1
  /\ fuseHeap = [i \in {} |-> [version |-> 0]]
  /\ held = [c \in Consumer |-> NoHandle]
  /\ request \in requests
  /\ response = NoResponse
  /\ hist = [rebuilds |-> 0,
             published |-> [v \in {0} |-> [updatedAt |-> 0, files |-> <<>>]],
             notified |-> <<>>,
             registered |-> [l \in Listener |-> 0],
             threw |-> FALSE,
             lastEvent |-> [path |-> <<>>, scheduled |-> FALSE],
             lastEventAt |-> 0,
             burstEvents |-> 0,
             burstRebuilds |-> 0,
             indexBuilds |-> 0,
             catalogEpoch |-> [builds |-> 0, returned |-> {}],
             lastQuery |-> [kind |-> "none", fetched |-> FALSE, snapVersion |-> 0,
                            indexVersion |-> 0, index |-> 0],
             unhandled |-> FALSE,
             locals |-> NoLocals]

\* the process before the service is constructed, on one of the given disks
InitOn(disks) == InitWith(disks, {NoRequest})

Init == InitOn(InitialDisks)

EVENT_KINDS == {"add", "change", "unlink"}

\* characters of the query texts the model sends
QueryChars == {"a", "b", " "}

MaxQueryLen == 3

Texts(chars, n) == UNION {[1..k -> chars] : k \in 0..n}

DayText(y, m, d) ==
  [pad |-> FALSE, form |-> "day", y |-> y, m |-> m, d |-> d, at |-> NoBound]
BlankText == [pad |-> TRUE, form |-> "blank", y |-> 0, m |-> 0, d |-> 0, at |-> NoBound]
GarbageText == [pad |-> FALSE, form |-> "garbage", y |-> 0, m |-> 0, d |-> 0, at |-> NoBound]
InstantText(t) == [pad |-> FALSE, form |-> "instant", y |-> 0, m |-> 0, d |-> 0, at |-> t]

JDate(text) == JStr(<<text>>)

\* a well-formed request
GoodBody == Body("object", JStr(<<"a", "b">>), JUndef, JUndef, JUndef, JUndef)

QueryValues ==
  {JUndef, JNull, JNum(5), JBool, JArr(<<JStr(<<"a", "b">>)>>)}
  \cup {JStr(q) : q \in Texts(QueryChars, MaxQueryLen)}

CategoryValues ==
  {JUndef, JNull, JNum(5), JBool, JStr(<<"Memory">>), JArr(<<>>),
   JArr(<<JStr(<<"Memory">>)>>), JArr(<<JStr(<<" ", "Reports", " ">>), JStr(<<"Sessions">>)>>),
   JArr(<<JStr(<<" ">>)>>), JArr(<<JNum(1)>>), JArr(<<JStr(<<"Memory">>), JNull>>),
   JArr(<<JStr(<<"Projects">>)>>), JArr(<<JStr(<<"constructor">>)>>)}

DateValues ==
  {JUndef, JNull, JNum(20260101), JBool, JArr(<<>>), JDate(BlankText), JDate(GarbageText),
   JDate(DayText(2026, 2, 28)), JDate(DayText(2026, 2, 30)), JDate(DayText(2026, 3, 2)),
   JDate(DayText(2026, 13, 1)), JDate(InstantText(Time(20512, 43200000)))}

LimitValues == {JUndef, JNum(500), JNum(0), JStr(<<"a", "b", "c">>), JStr(<<"2", "5">>)}

\* bodies of the recall requests the model sends: every non-object body,
\* and objects that vary one field, the dates or query and categories together
RecallBodies ==
  {NonObjectBody(t) : t \in {"malformed", "null", "array", "number", "string", "boolean"}}
  \cup {Body("object", q, JUndef, JUndef, JUndef, JUndef) : q \in QueryValues}
  \cup {Body("object", q, JUndef, c, JUndef, JUndef) :
          q \in {JStr(<<"a">>), JStr(<<"a", "b">>)}, c \in CategoryValues}
  \cup {Body("object", JStr(<<"a", "b">>), JUndef, JUndef, f, t) :
          f \in DateValues, t \in DateValues}
  \cup {Body("object", JStr(<<" ", "a", "b">>), l, JUndef, JUndef, JUndef) : l \in LimitValues}

\* the requests sent in the specifications about the service
FewBodies == {GoodBody, Body("object", JStr(<<"a">>), JUndef, JUndef, JUndef, JUndef)}

FewQueries == { <<"a">>, <<"a", "b">> }

Watch == \E kind \in EVENT_KINDS, p \in WatchedPaths : WatchEvent(kind, p)

\* events for one relevant file
WatchOne == \E kind \in EVENT_KINDS : WatchEvent(kind, F_memA)

\* files that are removed and added again in the specification of the watcher
ChurnPaths == {F_memA, F_memDel}

\* events for every path of the model: change events for all of them,
\* removal and re-creation of the churn paths, one missing at a time
WatchAny ==
  \E kind \in EVENT_KINDS, p \in AllPaths :
    /\ kind # "change" => p \in ChurnPaths
    /\ kind = "unlink" => fs = AllPaths
    /\ WatchEvent(kind, p)

Tick == TickUntil(MaxTime)

TickShort == TickUntil(ShortTime)

Read == GetSnapshot("c1")

ReadAny == \E c \in Consumer : GetSnapshot(c)

Mutate ==
  \E c \in Consumer :
    \/ MutateField(c)
    \/ MutateFiles(c)
    \/ \E i \in 1..Len(held[c].files) : MutateNode(c, i)

Subscription == \E l \in Listener : Subscribe(l) \/ Unsubscribe(l)

Search == \E q \in FewQueries : SimpleSearch(q)

Recall == \E body \in FewBodies : Post(body)

RecallAny == \E body \in RecallBodies : Post(body)

\* the File Index Service: watcher, debounce timer, rebuilds, readers
Next ==
  \/ Construct
  \/ Watch
  \/ TimerFire
  \/ Tick
  \/ Read

Spec == Init /\ [][Next]_vars

\* one file on disk at start
InitOne == InitOn({{F_long}})

\* the service with subscribers
NextSubscribe ==
  \/ Construct
  \/ WatchOne
  \/ TimerFire
  \/ TickShort
  \/ Subscription

SpecSubscribe == InitOne /\ [][NextSubscribe]_vars

\* the service with the three query endpoints
NextCache ==
  \/ Construct
  \/ WatchOne
  \/ TimerFire
  \/ TickShort
  \/ IndexInfo
  \/ Search
  \/ Recall

SpecCache == InitOne /\ [][NextCache]_vars

\* every operation of the service and of the query endpoints
NextOps ==
  \/ Construct
  \/ Watch
  \/ TimerFire
  \/ TickShort
  \/ Read
  \/ Subscribe("l1")
  \/ Unsubscribe("l1")
  \/ IndexInfo
  \/ SimpleSearch(<<"a", "b">>)
  \/ Post(GoodBody)

SpecOps == InitOne /\ [][NextOps]_vars

\* the service with consumers that write to the snapshots they hold
NextConsumer ==
  \/ Construct
  \/ WatchOne
  \/ TimerFire
  \/ TickShort
  \/ ReadAny
  \/ Mutate

SpecConsumer == InitOne /\ [][NextConsumer]_vars

\* the watcher callback on every path of the model
InitWatch == InitOn({AllPaths})

NextWatch ==
  \/ Construct
  \/ WatchAny
  \/ TimerFire
  \/ TickShort

SpecWatch == InitWatch /\ [][NextWatch]_vars

\* the recall endpoint on every request body of the model
NextRecall ==
  \/ Construct
  \/ RecallAny

SpecRecall == Init /\ [][NextRecall]_vars

\* texts sent as limit
LimitTexts ==
  { <<"a", "b", "c">>, <<"2", "5">>, <<" ", "7", " ">>, <<"2", ".", "7">>, <<"-", "3">>,
    <<"0">>, <<"5", "0", "0">>, <<"Infinity">>, <<"-", "Infinity">>, <<>>, <<" ">>,
    <<"5", ".">>, <<".", "5">>, <<"-">>, <<".">>, <<"-", "0", ".", "5">>, <<"5", "1">>,
    <<"1", ".", ".", "2">>, <<"2", " ", "5">>, <<"4", "9", ".", "9">> }

\* values sent as limit: absent, null, not a number, integers, fractions,
\* an overflowing literal (JSON.parse gives Infinity) and texts
QueryLimits ==
  {JUndef, JNull, JBool, JArr(<<JNum(5)>>), JNumber(Infinite(1))}
  \cup {JNum(n) : n \in {500, 0, 1, 2, 10, 50, 51, -7}}
  \cup {JNumber(x) : x \in {Fin(27, 10), Fin(-5, 10), Fin(509, 10), Fin(999, 1000), Fin(-27, 10)}}
  \cup {JStr(t) : t \in LimitTexts}

\* entries of the categories arrays: aliases in several spellings and blanks
AliasEntries ==
  { <<"Reports">>, <<"workspace", " ", "docs">>, <<"Memory">>, <<"Workspace">>,
    <<" ", "MEMORY", " ">>, <<" ">>, <<"Sessions">> }

\* entries that are no alias: an unknown name and the names of properties
\* that every object inherits
UnknownEntries == { <<"Projects">>, <<" ", "Projects">>, <<"constructor">>, <<"__proto__">> }

\* length of the categories arrays
MaxEntries == 3

JStrings(texts, n) == {[i \in 1..k |-> JStr(e[i])] : k \in {n}, e \in [1..n -> texts]}

QueryCategories ==
  {JArr(a) : a \in UNION {JStrings(AliasEntries, n) : n \in 0..MaxEntries}}
  \cup {JArr(a) : a \in UNION {JStrings(UnknownEntries \cup {<<"Memory">>, <<" ">>}, n) : n \in 1..2}}
  \cup {JArr(<<JStr(<<"Conversations">>)>>), JArr(<<JStr(<<"long", "-", "term">>)>>),
         JArr(<<JStr(<<"LongTerm">>)>>), JArr(<<JStr(<<"workspace", "-", "docs">>)>>)}

\* date bounds: calendar days (real ones, February 30th, month 13, a day in
\* the year 99), instants, blank and unparseable texts
QueryDates ==
  {JUndef, JNull, JDate(BlankText), JDate(GarbageText),
   JDate(DayText(2026, 2, 28)), JDate(DayText(2026, 2, 30)), JDate(DayText(2026, 3, 1)),
   JDate(DayText(2026, 13, 1)), JDate(DayText(2024, 2, 29)), JDate(DayText(2026, 2, 29)),
   JDate(DayText(99, 12, 31)), JDate(DayText(2026, 4, 31)), JDate(DayText(2026, 1, 0)),
   JDate(InstantText(Time(20512, 43200000))), JDate(InstantText(Time(20513, 0)))}

\* the requests of the specification of the query processor: every limit,
\* every categories array, every pair of date bounds under three category
\* filters
QueryBodies ==
  {Body("object", JStr(<<"a", "b">>), l, JUndef, JUndef, JUndef) : l \in QueryLimits}
  \cup {Body("object", JStr(<<"a", "b">>), JNum(2), c, JUndef, JUndef) : c \in QueryCategories}
  \cup {Body("object", JStr(<<"a", "b">>), JUndef, c, f, t) :
          c \in {JUndef, JArr(<<JStr(<<"Sessions">>)>>), JArr(<<JStr(<<"Memory">>), JStr(<<"Reports">>)>>)},
          f \in QueryDates, t \in QueryDates}
  \cup {Body("object", JStr(<<"b", "a">>), JNum(n), c, f, JUndef) :
          n \in {1, 2}, c \in {JUndef, JArr(<<JStr(<<"Sessions">>)>>)},
          f \in {JUndef, JDate(DayText(2026, 2, 28))}}
  \cup {Body("object", JStr(<<"a">>), JUndef, JArr(<<JStr(<<"Projects">>)>>), JUndef, JUndef)}

\* the disks of that specification: the long-term file alone, and dated and
\* undated documents of every recall category
QueryDisks ==
  { {F_long},
    {F_memDay, F_memBadDay, F_memA, F_convDay, F_long, F_report, F_sess} }

InitQuery == InitOn(QueryDisks)

\* the first recall request the service receives
RecallOnce == \E body \in QueryBodies : hist.lastQuery.kind = "none" /\ Post(body)

NextQuery ==
  \/ Construct
  \/ RecallOnce

SpecQuery == InitQuery /\ [][NextQuery]_vars

\* requests against a corpus with more matching documents than the
\* internal search limit
OversampleBodies ==
  {Body("object", JStr(<<"a", "b">>), l, c, f, t) :
     l \in {JUndef, JNum(1), JNum(8), JNum(9), JNum(50)},
     c \in {JUndef, JArr(<<JStr(<<"Sessions">>)>>), JArr(<<JStr(<<"Memory">>)>>)},
     f \in {JUndef, JDate(DayText(2026, 2, 28)), JDate(DayText(2026, 3, 1))},
     t \in {JUndef, JDate(DayText(2026, 2, 28)), JDate(DayText(2026, 3, 1))}}

OversampleDisks == { {F_memDay, F_sess}, {F_memDay, F_sessBig} }

InitOversample == InitOn(OversampleDisks)

RecallOversample == \E body \in OversampleBodies : hist.lastQuery.kind = "none" /\ Post(body)

NextOversample ==
  \/ Construct
  \/ RecallOversample

SpecOversample == InitOversample /\ [][NextOversample]_vars

\* files outside every configured directory
F_etc == << <<"etc">>, <<"passwd">> >>
F_sibling == join(join(OPENCLAW_HOME, <<"workspace-old">>), <<"a", DOT, "md">>)
F_cwd == join(CWD, <<"x", DOT, "md">>)

\* the paths requested from the content endpoint: every file of the model,
\* the configured directories and their parents, and spellings with "." and
\* ".." segments, absolute and relative to the working directory
ContentPaths ==
  {NoPath}
  \cup {PathArg(TRUE, f) : f \in (AllPaths \ {F_sessBig}) \cup {F_etc, F_sibling, F_cwd}}
  \cup {PathArg(TRUE, d) : d \in {<<>>, HOME_DIR, OPENCLAW_HOME, WORKSPACE_ROOT, MEMORY_DIR,
                                  SESSIONS_DIR, dirname(SESSIONS_DIR)}}
  \cup {PathArg(TRUE, MEMORY_DIR \o <<PARENT, PARENT, <<"x", DOT, "md">> >>),
        PathArg(TRUE, MEMORY_DIR \o <<PARENT, LONG_TERM_FILE>>),
        PathArg(TRUE, WORKSPACE_ROOT \o <<PARENT, PARENT, PARENT, PARENT, <<"etc">>, <<"passwd">> >>),
        PathArg(TRUE, WORKSPACE_ROOT \o <<SELF, <<"memory">>, PARENT, PARENT, <<"x", DOT, "md">> >>),
        PathArg(TRUE, SESSIONS_DIR \o <<PARENT, PARENT, PARENT, <<"x", DOT, "md">> >>),
        PathArg(TRUE, SESSIONS_DIR \o <<PARENT, <<"sessions">>, <<"s", DOT, "jsonl">> >>),
        PathArg(FALSE, << <<"x", DOT, "md">> >>),
        PathArg(FALSE, <<PARENT, PARENT, <<"etc">>, <<"passwd">> >>),
        PathArg(FALSE, <<PARENT, PARENT>> \o F_memA),
        PathArg(FALSE, <<PARENT, PARENT>> \o F_outside)}

\* disks on which the files outside the configured directories exist or not
ContentDisks ==
  { {}, {F_long}, {F_outside, F_etc, F_memA},
    (AllPaths \ {F_sessBig}) \cup {F_etc, F_sibling, F_cwd} }

InitContent == InitOn(ContentDisks)

Content == \E filePath \in ContentPaths : GetContent(filePath)

NextContent ==
  \/ Construct
  \/ Content

SpecContent == InitContent /\ [][NextContent]_vars

\* disks with transcripts and markdown files for the index totals
IndexDisks ==
  { {F_sess, F_memA}, {F_sessEmpty, F_memDay}, {F_sess, F_sessEmpty, F_long, F_convC},
    {F_memA, F_memSubB, F_sessMd, F_convJsonl} }

\* a transcript or a markdown file changes, appears or disappears
WatchIndexed == \E kind \in EVENT_KINDS, p \in {F_sess, F_memA} : WatchEvent(kind, p)

InitIndex == InitOn(IndexDisks)

\* the service and the index-info endpoint
NextIndex ==
  \/ Construct
  \/ WatchIndexed
  \/ TimerFire
  \/ TickShort
  \/ IndexInfo

SpecIndex == InitIndex /\ [][NextIndex]_vars

\* relevant events arrive up to MaxTime; the clock runs on until the timer
\* armed by the last of them is due
WatchUntilMaxTime == now <= MaxTime /\ WatchOne

TickLive == TickUntil(MaxTime + DEBOUNCE_MS)

NextLive ==
  \/ Construct
  \/ WatchUntilMaxTime
  \/ TimerFire
  \/ TickLive

\* the callback of a due timer starts: its first statement is
\* `this.rebuildTimer = null` (TimerFire is the only step of the service
\* that resets the handle)
TimerExpires == constructed /\ TimerDue /\ rebuildTimer' = 0

\* the event loop runs the callback of a timer once it is due, and time
\* does not stop
SpecLive ==
  InitOne /\ [][NextLive]_vars /\ WF_rebuildTimer(TimerExpires) /\ WF_vars(TickLive)

\* ---- a transcript given line by line, its documents returned as results
MaxLines == 3
MaxTurns == 7

\* the kinds of line: two messages, lines JSON.parse rejects or that hold no
\* record, a record of another type, a tool result, an assistant turn that
\* is all thinking, one made of parts (with a timestamp on the entry only),
\* a message of whitespace, and a message entry without a message object
LineKinds ==
  { Message("user", <<"a">>, Time(20512, 0)),
    Message("assistant", <<" ", "b", "\n">>, NoTimestamp),
    InvalidLine, BlankLine, NullLine,
    Line("object", "session", TRUE, "user", StringContent(<<"a">>), TsAbsent, TsAbsent),
    Line("object", "message", TRUE, "toolResult", StringContent(<<"a">>), TsAbsent, TsAbsent),
    Line("object", "message", TRUE, "assistant",
         ArrayContent(<<ObjectPart("thinking", TRUE, <<"t">>)>>), TsAbsent, TsAbsent),
    Line("object", "message", TRUE, "assistant",
         ArrayContent(<<ObjectPart("thinking", TRUE, <<"t">>), ObjectPart("text", TRUE, <<" ", "c">>),
                        OtherPart, ObjectPart("text", FALSE, <<>>), StringPart(<<"d">>)>>),
         TsGarbage, TsText(Time(20513, 0))),
    Message("user", <<" ", "\n">>, Time(20512, 0)),
    Line("object", "message", FALSE, "", OtherContent, TsAbsent, TsNumber(Time(20512, 0))) }

\* the lines of a conversation: turns of either role and broken lines
TurnKinds ==
  { Message("user", <<"q">>, NoTimestamp), Message("assistant", <<"r">>, NoTimestamp), InvalidLine }

TranscriptRequest(lines, matchIndex) == [t |-> "transcript", lines |-> lines, matchIndex |-> matchIndex]

TranscriptRequests ==
  {TranscriptRequest(lines, 0) : lines \in Texts(LineKinds, MaxLines)}
    \cup {TranscriptRequest(lines, MaxTurns) : lines \in Texts(TurnKinds, MaxTurns)}

\* the documents as results of a query that matched each at matchIndex
SessionResults(documents, matchIndex) ==
  [Response(200, "", <<>>, TRUE) EXCEPT
     !.results = [i \in 1..Len(documents) |->
                    [item |-> documents[i], context |-> buildContext(documents[i], matchIndex)]]]

\* the transcript is indexed and every document of it is returned
RecallTranscript ==
  /\ request.t = "transcript"
  /\ response = NoResponse
  /\ response' = SessionResults(SessionDocuments(ParseMessages(request.lines), F_sess, basename(F_sess)),
                                request.matchIndex)
  /\ UNCHANGED <<constructed, now, fs, heap, snapshot, timers, rebuildTimer, listeners, subs,
                 recallSearchIndex, indexHeap, searchIndex, indexVersion, fuseHeap, held,
                 request, hist>>

InitTranscript == InitWith({{F_sess}}, TranscriptRequests)

NextTranscript == RecallTranscript

SpecTranscript == InitTranscript /\ [][NextTranscript]_vars

\* ---- a document and the place where the engine matched it, given to the
\* excerpt and context builders
MaxPad == 100

\* the example of the section rule: B is nested in A, C ends both
D_nested ==
  <<"#", " ", "A", "\n", "\n", "t", "e", "x", "t", "1", "\n", "\n", "#", "#", " ", "B",
    "\n", "\n", "t", "e", "x", "t", "2", "\n", "\n", "#", " ", "C", "\n", "\n", "t",
    "e", "x", "t", "3">>

\* C is deeper than B and does not end it; D does
D_deep ==
  <<"#", " ", "A", "\n", "t", "\n", "#", "#", " ", "B", "\n", "u", "\n", "#", "#", "#",
    " ", "C", "\n", "v", "\n", "#", "#", " ", "D", "\n", "w", "\n", "#", " ", "E",
    "\n", "x">>

\* text before the first heading, with lines that are no headings
D_preamble ==
  <<"i", "n", "t", "r", "o", "\n", "\n", "#", "t", "a", "g", "\n", "#", "#", "#", "#",
    "#", "#", "#", " ", "7", "\n", "\n", "#", " ", "A", "\n", "\n", "b", "o", "d", "y",
    "\n">>

\* no heading at all: three paragraphs
D_plain ==
  <<"o", "n", "e", "\n", "\n", "t", "w", "o", "\n", "\n", "\n", "\n", "t", "h", "r",
    "e", "e">>

\* number signs without text on their line
D_bare ==
  <<"#", "\n", "#", "#", " ", "B", "\n", "#", " ", "\n", "#", " ", " ">>

\* runs of whitespace
D_spaced ==
  <<" ", " ", "a", " ", "\n", "\n", " ", "b", "\t", " ", "c", " ", " ">>

FILL ==
  <<"a", "b", "c", "d", "e", "f", "g", "h", "i", "j", "k", "l", "m", "n", "o", "p", "q",
    "r", "s", "t", "u", "v", "w", "x", "y", "z">>

\* n characters of words, with a blank line every breakEvery characters
\* (none when breakEvery is 0)
Filler(n, breakEvery) ==
  [i \in 1..n |->
     IF breakEvery > 0 /\ i > 1 /\ i % breakEvery \in {0, 1} THEN "\n"
     ELSE IF i % 9 = 0 THEN " "
     ELSE FILL[(i % 26) + 1]]

\* a heading and a body of paragraphs: a section of MAX_SECTION_CHARS + pad
\* characters
D_section(pad) == <<"#", " ", "A", "\n", "\n">> \o Filler(MAX_SECTION_CHARS - 5 + pad, 700)

MarkdownItem(content) ==
  RecallDocument(F_memA, 0, "markdown", basename(F_memA), "Memory", content, <<>>, NoTimestamp)

SessionItem(content, contextSource) ==
  RecallDocument(F_sess, 1, "session", basename(F_sess), "Sessions", content, contextSource,
                 NoTimestamp)

ShortItems ==
  {MarkdownItem(content) :
     content \in {D_nested, D_deep, D_preamble, D_plain, D_bare, D_spaced, <<>>, <<" ", "\n">>}}
    \cup {SessionItem(D_nested, buildSessionContext(<<SessionMessage("user", D_nested, 1, NoTimestamp)>>, 1))}

\* documents around the three thresholds: the excerpt, the context and the
\* section size
LongItems ==
  {MarkdownItem(D_section(pad)) : pad \in {0, 1, MaxPad}}
    \cup {MarkdownItem(Filler(n + pad, 0)) :
            n \in {MAX_EXCERPT_CHARS, MAX_CONTEXT_CHARS}, pad \in {0, 1, MaxPad}}
    \cup {MarkdownItem(<<" ", "\n">> \o Filler(MAX_EXCERPT_CHARS + MaxPad, 0) \o <<" ">>)}
    \cup {SessionItem(Filler(MAX_EXCERPT_CHARS + 1, 0), Filler(MAX_CONTEXT_CHARS + pad, 700)) :
            pad \in {0, 1}}

\* offsets at the start, around the context radius and the excerpt size, in
\* the middle, near the end and past it
LongOffsets(content) ==
  {0, 1, MIN_CONTEXT_RADIUS, MIN_CONTEXT_RADIUS + 1, MAX_EXCERPT_CHARS \div 2,
   MAX_EXCERPT_CHARS - 1, MAX_EXCERPT_CHARS + 1, 699, 700, 1400,
   Len(content) - MAX_EXCERPT_CHARS, Len(content) - MIN_CONTEXT_RADIUS,
   Len(content) - 1, Len(content), Len(content) + MaxPad} \cap Nat

ShortQuery == <<"t", "2">>
LongQuery == [i \in 1..MaxPad |-> "z"]

ExtractRequest(item, contentMatch, query) ==
  [t |-> "extract", item |-> item, contentMatch |-> contentMatch, query |-> query]

ExtractRequests ==
  UNION {{ExtractRequest(item, contentMatch, ShortQuery) :
            contentMatch \in {NOT_FOUND} \cup 0..(Len(item.content) + 1)} : item \in ShortItems}
    \cup UNION {{ExtractRequest(item, contentMatch, query) :
                   contentMatch \in LongOffsets(item.content), query \in {ShortQuery, LongQuery}}
                  : item \in LongItems}

\* the entry of the response for a result, with the locals of the handler:
\* the match offset and, for a markdown document, the section
Extracted(result, matchIndex, query) ==
  [Response(200, "", <<>>, TRUE) EXCEPT
     !.results = <<[result |-> ResultOf(result, matchIndex, query),
                    matchIndex |-> matchIndex,
                    section |-> IF result.item.kind = "session" THEN NoSection
                                ELSE extractMarkdownSection(result.item.content, matchIndex)]>>]

\* the engine gives the document of the request as a result
Extract ==
  /\ request.t = "extract"
  /\ response = NoResponse
  /\ response' = Extracted([item |-> request.item, score |-> 0,
                            contentMatch |-> request.contentMatch, refIndex |-> 1],
                           getMatchIndex([item |-> request.item, score |-> 0,
                                          contentMatch |-> request.contentMatch, refIndex |-> 1],
                                         request.query),
                           request.query)
  /\ UNCHANGED <<constructed, now, fs, heap, snapshot, timers, rebuildTimer, listeners, subs,
                 recallSearchIndex, indexHeap, searchIndex, indexVersion, fuseHeap, held,
                 request, hist>>

InitExtract == InitWith({{F_memA, F_sess}}, ExtractRequests)

NextExtract == Extract

SpecExtract == InitExtract /\ [][NextExtract]_vars

-----------------------------------------------------------------------------
(* Properties                                                               *)

\* C1: every rebuildIndex (the constructor's and every debounced one)
\* publishes a version that is the previous version plus 1, and a step that
\* is not a rebuild (getSnapshot, subscribe, unsubscribe, a query, a dropped
\* or a scheduled watch event, the clock) leaves the version unchanged.
C1_VersionMonotonic ==
  [][/\ hist'.rebuilds \in {hist.rebuilds, hist.rebuilds + 1}
     /\ hist'.rebuilds = hist.rebuilds + 1 => snapshot'.version = snapshot.version + 1
     /\ hist'.rebuilds = hist.rebuilds => snapshot'.version = snapshot.version]_vars

\* two rebuilds have run, with a subscriber registered, a snapshot read and
\* queries answered
C1_Witness ==
  /\ hist.rebuilds = 2
  /\ snapshot.version = 2
  /\ listeners # <<>>
  /\ held["c1"].valid
  /\ hist.lastQuery.fetched
  /\ ~hist.lastEvent.scheduled /\ hist.lastEvent.path # <<>>

\* a step in which the schedule callback ran for a relevant path
RelevantEventStep ==
  hist'.burstEvents # hist.burstEvents \/ hist'.lastEventAt # hist.lastEventAt

\* a step in which the debounce timer fired
DebouncedRebuildStep == hist'.burstRebuilds = hist.burstRebuilds + 1

CurrentView ==
  [updatedAt |-> getSnapshot(snapshot).updatedAt,
   files |-> Deref(heap, getSnapshot(snapshot).files)]

\* C3: getSnapshot returns an independent copy: whatever consumers do to
\* the snapshots they were given, a later getSnapshot call returns the
\* version, time and file descriptors that the rebuild published.
C3_IndependentCopy ==
  constructed => CurrentView = hist.published[snapshot.version]

\* what consumer c reads from the snapshot it holds
HeldView(c) == [updatedAt |-> held[c].updatedAt, files |-> Deref(heap, held[c].files)]

\* C4: every snapshot returned by getSnapshot is complete: its version, its
\* updatedAt and its files are those published by one and the same rebuild.
C4_AtomicSnapshot ==
  \A c \in Consumer :
    held[c].valid =>
      /\ held[c].version \in DOMAIN hist.published
      /\ HeldView(c) = hist.published[held[c].version]

\* a reader holds the complete first snapshot while the service has
\* published a different second one
C4_Witness ==
  /\ held["c1"].valid
  /\ held["c1"].version = 1
  /\ snapshot.version = 2
  /\ hist.published[1].files # hist.published[2].files

\* C5: every query that fetches an index (recall search, index-info, simple
\* search) is answered from an index whose recorded version is the snapshot
\* version current at the fetch.
C5_CacheFresh ==
  hist.lastQuery.fetched => hist.lastQuery.indexVersion = hist.lastQuery.snapVersion

\* the first query after the version changed to 2 used an index of version
\* 2, the second index built
C5_Witness ==
  /\ hist.lastQuery.fetched
  /\ hist.lastQuery.kind = "recall"
  /\ hist.lastQuery.snapVersion = 2
  /\ hist.indexBuilds = 2

\* a step in which getRecallSearchIndex ran and changed something
RecallFetchStep ==
  /\ hist'.lastQuery # hist.lastQuery
  /\ hist'.lastQuery.fetched
  /\ hist'.lastQuery.kind \in {"recall", "info"}

\* C6: the recall index is a cache keyed by snapshot version: a
\* getRecallSearchIndex call builds an index iff none was built or the
\* cached version differs from the snapshot version, nothing else builds
\* one; between two catalog rebuilds at most one index is built and every
\* query gets the same instance; an index object is never modified.
C6_PureCache ==
  /\ [](/\ hist.catalogEpoch.builds <= 1
        /\ Cardinality(hist.catalogEpoch.returned) <= 1)
  /\ [][/\ RecallFetchStep =>
             (recallSearchIndex' # recallSearchIndex
                <=> (recallSearchIndex = 0
                       \/ indexHeap[recallSearchIndex].version # snapshot.version))
        /\ ~RecallFetchStep => recallSearchIndex' = recallSearchIndex
        /\ recallSearchIndex' # recallSearchIndex => hist'.indexBuilds = hist.indexBuilds + 1
        /\ \A id \in (DOMAIN indexHeap) \cap (DOMAIN indexHeap') :
             indexHeap'[id] = indexHeap[id]]_vars

\* after the second catalog rebuild, queries of both kinds were answered by
\* the one index built for it
C6_Witness ==
  /\ snapshot.version = 2
  /\ hist.indexBuilds = 2
  /\ hist.catalogEpoch.builds = 1
  /\ hist.lastQuery.kind = "info"
  /\ response.status = 200

\* the deliveries of the last rebuild to listener l
DeliveredTo(l) == {i \in 1..Len(hist.notified) : hist.notified[i].listener = l}

\* C7: a listener is invoked once per rebuild for each registration that is
\* active when the rebuild runs, with the newly published version, and not
\* at all once its registrations are unsubscribed.
C7_NotifiedOncePerRebuild ==
  \A l \in Listener :
    /\ Cardinality(DeliveredTo(l)) = hist.registered[l]
    /\ \A i \in DeliveredTo(l) : hist.notified[i].version = snapshot.version

\* the relevance of a path as the claim states it
C8_Relevant(p) ==
  /\ ~StartsWith(basename(p), <<DOT>>)
  /\ ~Includes(basename(p), DELETED_INFIX)
  /\ \/ /\ EndsWith(basename(p), MD_EXT)
        /\ \/ UnderRoot(p, MEMORY_DIR)
           \/ UnderRoot(p, CONVERSATIONS_DIR)
           \/ dirname(p) = WORKSPACE_ROOT
     \/ /\ EndsWith(basename(p), JSONL_EXT)
        /\ UnderRoot(p, SESSIONS_DIR)

\* C8: an add/change/unlink event for path p schedules a rebuild iff p is
\* relevant; an event that is dropped leaves the pending timer and the
\* snapshot unchanged, and only an event for a relevant path creates or
\* moves a timer.
C8_RelevanceFilter ==
  /\ [](hist.lastEvent.path # <<>> =>
          (hist.lastEvent.scheduled <=> C8_Relevant(hist.lastEvent.path)))
  /\ [][/\ hist'.lastEvent # hist.lastEvent /\ ~hist'.lastEvent.scheduled =>
             UNCHANGED <<timers, rebuildTimer, snapshot>>
        /\ hist'.lastEvent # hist.lastEvent /\ C8_Relevant(hist'.lastEvent.path) =>
             \E t \in timers' : timers' = {t} /\ t.due = now + DEBOUNCE_MS
        /\ timers' # timers /\ timers' # {} =>
             C8_Relevant(hist'.lastEvent.path) /\ snapshot' = snapshot]_vars

\* a session transcript event was scheduled and, while its timer was
\* pending, an event for a soft-deleted markdown file was dropped
C8_Witness ==
  /\ hist.lastEvent.path = F_memDel
  /\ ~hist.lastEvent.scheduled
  /\ timers # {}
  /\ hist.burstEvents > 0

\* a request body the claim calls malformed
C9_Malformed(body) ==
  \/ body.t \in {"malformed", "null", "array", "number", "string", "boolean"}
  \/ /\ body.t = "object"
     /\ \/ body.query.t # "string"
        \/ body.categories.t \notin {"undefined", "null", "array"}
        \/ \E i \in 1..Len(body.categories.a) : body.categories.a[i].t # "string"
        \/ body.date_from.t \notin {"undefined", "null", "string"}
        \/ body.date_to.t \notin {"undefined", "null", "string"}

\* C9: every malformed recall request is answered 400 with an error
\* message by the handler itself, never by an unhandled failure.
C9_MalformedIsClientError ==
  request # NoRequest /\ C9_Malformed(request) =>
    /\ response.status = 400
    /\ response.handled
    /\ response.msg # ""

\* C10: a recall request is rejected with a client error whenever its
\* trimmed query has fewer than 2 characters (a missing or non-string query
\* included) and is not rejected for its query otherwise.
C10_QueryLengthFloor ==
  request # NoRequest =>
    /\ Len(QueryOf(request)) < 2 => response.status = 400
    /\ Len(QueryOf(request)) >= 2 => response.msg # "query must be at least 2 characters"

\* the request passed the query check, so the handler normalized its limit
C_QueryAccepted ==
  /\ request # NoRequest
  /\ request.t = "object"
  /\ hist.locals.reached

\* what the claim says a limit value normalizes to
C11_Expected(value) ==
  IF value.t = "number" /\ value.n.fin
  THEN Min2(50, Max2(1, Floor(value.n)))
  ELSE IF value.t = "string" /\ Trim(value.s) # <<>> /\ ToNumber(value.s).fin
       THEN Min2(50, Max2(1, Floor(ToNumber(value.s))))
  ELSE 10

\* C11: normalizeLimit returns an integer in [1, 50]: min(50, max(1,
\* floor(v))) for a finite number or numeric string v (500 gives 50, 0 gives
\* 1), the default 10 for an absent or invalid value ("abc"); and no limit
\* value makes an otherwise valid request fail.
C11_LimitNormalization ==
  C_QueryAccepted =>
    /\ hist.locals.limit \in 1..50
    /\ hist.locals.limit = C11_Expected(request.limit)
    /\ request.limit = JNum(500) => hist.locals.limit = 50
    /\ request.limit = JNum(0) => hist.locals.limit = 1
    /\ request.limit \in {JStr(<<"a", "b", "c">>), JUndef, JNull, JBool} => hist.locals.limit = 10
    /\ request.limit = JNumber(Fin(27, 10)) => hist.locals.limit = 2
    /\ (/\ request.categories = JUndef
        /\ request.date_from = JUndef
        /\ request.date_to = JUndef) => response.status = 200

\* a fraction below 1 was clamped to 1 and the request answered
C11_Witness ==
  /\ C_QueryAccepted
  /\ request.limit = JNumber(Fin(-5, 10))
  /\ hist.locals.limit = 1
  /\ response.status = 200

\* the alias key of a categories entry
C12_Key(entry) == toLowerCase(Trim(entry.s))

\* the categories array holds only strings that are blank or alias keys
C12_AllAliases(categories) ==
  /\ categories.t = "array"
  /\ \A i \in 1..Len(categories.a) :
       /\ categories.a[i].t = "string"
       /\ C12_Key(categories.a[i]) \in DOMAIN CATEGORY_ALIASES \cup {<<>>}

\* the set of recall categories the entries of the array alias to
C12_Targets(categories) ==
  UNION {CATEGORY_ALIASES[C12_Key(categories.a[i])] :
           i \in {j \in 1..Len(categories.a) : C12_Key(categories.a[j]) # <<>>}}

\* the canonical names of a filter set, as a categories array
C12_Canonical(filter) ==
  LET names == SelectSeq(RECALL_CATEGORY_ORDER, LAMBDA c : c \in filter)
  IN  JArr([i \in 1..Len(names) |-> JStr(<<names[i]>>)])

\* C12: the filter produced by normalizeCategories is the set of recall
\* categories the entries alias to, whatever their case, surrounding
\* whitespace, order and repetitions (no filter when that set is empty, as
\* for an absent field); normalizing the canonical names of a filter gives
\* the same filter; ["Reports", "workspace docs", "Memory"] and
\* ["Workspace", "Memory"] give the same filter.
C12_AliasNormalization ==
  C_QueryAccepted =>
    /\ C12_AllAliases(request.categories) =>
         /\ hist.locals.categoryFilter =
              (IF C12_Targets(request.categories) = {} THEN NoFilter
               ELSE C12_Targets(request.categories))
         /\ hist.locals.categoryFilter # NoFilter =>
              normalizeCategories(C12_Canonical(hist.locals.categoryFilter)) =
                Returned(hist.locals.categoryFilter)
         /\ request.date_from = JUndef /\ request.date_to = JUndef => response.status = 200
    /\ request.categories \in
         {JArr(<<JStr(<<"Reports">>), JStr(<<"workspace", " ", "docs">>), JStr(<<"Memory">>)>>),
          JArr(<<JStr(<<"Workspace">>), JStr(<<"Memory">>)>>)} =>
         hist.locals.categoryFilter = {"Workspace", "Memory"}
    /\ request.categories \in {JUndef, JNull, JArr(<<>>), JArr(<<JStr(<<" ">>), JStr(<<" ">>)>>)} =>
         hist.locals.categoryFilter = NoFilter

\* the request with ["Reports", "workspace docs", "Memory"] was answered
\* under the filter {Workspace, Memory}
C12_Witness ==
  /\ C_QueryAccepted
  /\ request.categories =
       JArr(<<JStr(<<"Reports">>), JStr(<<"workspace", " ", "docs">>), JStr(<<"Memory">>)>>)
  /\ hist.locals.categoryFilter = {"Workspace", "Memory"}
  /\ response.status = 200

\* the entries of the array that are non-blank strings and no alias key
C13_Offending(categories) ==
  {i \in 1..Len(categories.a) :
     C12_Key(categories.a[i]) \notin DOMAIN CATEGORY_ALIASES \cup {<<>>}}

\* C13: a request (with an acceptable query) whose categories array of
\* strings holds a non-blank entry that is no alias key is answered 400 with
\* a message that names the first such entry, and no search is executed.
C13_UnknownCategoryNamed ==
  (/\ C_QueryAccepted
   /\ request.categories.t = "array"
   /\ \A i \in 1..Len(request.categories.a) : request.categories.a[i].t = "string"
   /\ C13_Offending(request.categories) # {}) =>
    /\ response.status = 400
    /\ response.msg = "unsupported category: "
    /\ response.arg = request.categories.a[SetMin(C13_Offending(request.categories))].s
    /\ ~hist.lastQuery.fetched

\* the calendar as the claim means it: the days of month m of year y
C14_DaysInMonth(y, m) ==
  CASE m \in {1, 3, 5, 7, 8, 10, 12} -> 31
    [] m \in {4, 6, 9, 11} -> 30
    [] m = 2 -> IF y % 4 = 0 /\ (y % 100 # 0 \/ y % 400 = 0) THEN 29 ELSE 28
    [] OTHER -> 0

C14_IsDay(value) == value.t = "string" /\ value.s[1].form = "day"

C14_RealDay(value) ==
  /\ value.s[1].m \in 1..12
  /\ value.s[1].d \in 1..C14_DaysInMonth(value.s[1].y, value.s[1].m)

C14_Days(value) == DaysFromCivil(value.s[1].y, value.s[1].m, value.s[1].d)

\* a bound that the handler accepts or ignores whatever C14 is about
C14_Harmless(value) ==
  \/ value.t \in {"undefined", "null"}
  \/ value.t = "string" /\ value.s[1].form \in {"blank", "instant"}
  \/ C14_IsDay(value) /\ C14_RealDay(value)

\* the categories of the request pass validation
C_CategoriesValid ==
  request.categories.t \in {"undefined", "null"} \/ C12_AllAliases(request.categories)

\* the documents of the index the last recall request searched
C_Documents == indexHeap[hist.lastQuery.index].documents

\* the request was validated and its search executed
C_Searched ==
  /\ C_QueryAccepted
  /\ response.status = 200
  /\ hist.lastQuery.kind = "recall"
  /\ hist.lastQuery.fetched

\* the category filter lets document d through
C_CategoryOk(d) ==
  hist.locals.categoryFilter = NoFilter \/ d.category \in hist.locals.categoryFilter

\* C14: a YYYY-MM-DD bound that is no real calendar day is rejected with a
\* client error that names the field; a real day is accepted and means
\* 00:00:00.000 UTC of that day as date_from and 23:59:59.999 UTC as
\* date_to; with date_from = date_to = D the documents that pass are
\* exactly those whose timestamp lies within UTC day D.
C14_StrictCalendarDay ==
  (C_QueryAccepted /\ C_CategoriesValid) =>
    /\ C14_IsDay(request.date_from) =>
         IF C14_RealDay(request.date_from)
         THEN /\ ~(response.status = 400 /\ response.msg = "date_from")
              /\ hist.locals.dateFromMs = Time(C14_Days(request.date_from), 0)
         ELSE /\ response.status = 400
              /\ response.msg = "date_from" /\ response.arg = <<"must be a valid date">>
              /\ ~hist.lastQuery.fetched
    /\ C14_Harmless(request.date_from) /\ C14_IsDay(request.date_to) =>
         IF C14_RealDay(request.date_to)
         THEN /\ ~(response.status = 400 /\ response.msg = "date_to")
              /\ hist.locals.dateToMs = Time(C14_Days(request.date_to), MS_PER_DAY - 1)
         ELSE /\ response.status = 400
              /\ response.msg = "date_to" /\ response.arg = <<"must be a valid date">>
              /\ ~hist.lastQuery.fetched
    /\ (/\ C14_IsDay(request.date_from) /\ C14_RealDay(request.date_from)
        /\ request.date_to = request.date_from) =>
         /\ C_Searched
         /\ \A i \in Range(hist.locals.picked) :
              /\ C_Documents[i].timestampMs # NoTimestamp
              /\ C_Documents[i].timestampMs.day = C14_Days(request.date_from)
         /\ Len(hist.locals.picked) < hist.locals.limit =>
              \A i \in Range(hist.locals.raw) :
                (/\ C_CategoryOk(C_Documents[i])
                 /\ C_Documents[i].timestampMs # NoTimestamp
                 /\ C_Documents[i].timestampMs.day = C14_Days(request.date_from))
                  => i \in Range(hist.locals.picked)

\* C15: when both bounds are given and date_from parses to a later time
\* than date_to, the request is rejected with a client error and no search
\* runs; when it is earlier or equal, the request is accepted.
C15_DateOrder ==
  (/\ C_QueryAccepted
   /\ hist.locals.dateFromMs # NoBound
   /\ hist.locals.dateToMs # NoBound) =>
    IF After(hist.locals.dateFromMs, hist.locals.dateToMs)
    THEN /\ response.status = 400
         /\ response.msg = "date_from must be before or equal to date_to"
         /\ ~hist.lastQuery.fetched
    ELSE response.status = 200

\* date_from 2026-03-01 with date_to 2026-02-28 was rejected, no search run
C15_Witness ==
  /\ C_QueryAccepted
  /\ hist.locals.dateFromMs = Time(20513, 0)
  /\ hist.locals.dateToMs = Time(20512, MS_PER_DAY - 1)
  /\ response.status = 400
  /\ ~hist.lastQuery.fetched

\* the date filter as the claim states it
C16_InRange(d) ==
  \/ hist.locals.dateFromMs = NoBound /\ hist.locals.dateToMs = NoBound
  \/ /\ d.timestampMs # NoTimestamp
     /\ hist.locals.dateFromMs # NoBound => ~After(hist.locals.dateFromMs, d.timestampMs)
     /\ hist.locals.dateToMs # NoBound => ~After(d.timestampMs, hist.locals.dateToMs)

\* C16: with a date bound set no document without timestamp is in the
\* results; a candidate is dropped by the date filter only when it has no
\* timestamp while a bound is set or its timestamp is outside the bounds
\* (never when no bound is set).
C16_NullTimestampExclusion ==
  C_Searched =>
    /\ (hist.locals.dateFromMs # NoBound \/ hist.locals.dateToMs # NoBound) =>
         \A i \in Range(hist.locals.picked) : C_Documents[i].timestampMs # NoTimestamp
    /\ \A i \in Range(hist.locals.picked) : C16_InRange(C_Documents[i])
    /\ Len(hist.locals.picked) < hist.locals.limit =>
         \A i \in Range(hist.locals.raw) :
           C_CategoryOk(C_Documents[i]) /\ C16_InRange(C_Documents[i])
             => i \in Range(hist.locals.picked)

\* with date_from set, the engine matched an undated document, and the
\* results hold dated documents only
C16_Witness ==
  /\ C_Searched
  /\ hist.locals.dateFromMs # NoBound
  /\ \E i \in Range(hist.locals.raw) : C_Documents[i].timestampMs = NoTimestamp
  /\ hist.locals.picked # <<>>
  /\ \A i \in Range(hist.locals.picked) : C_Documents[i].timestampMs # NoTimestamp

\* the position of document i in the engine's result list
C17_RawPosition(i) == CHOOSE k \in 1..Len(hist.locals.raw) : hist.locals.raw[k] = i

\* C17: the response list of an accepted request has at most `limit`
\* entries, each the path, name and category of a candidate that is in the
\* category filter and passes the date filter, ordered by ascending score,
\* entries of equal score in the order the engine returned them.
C17_ResultList ==
  C_Searched =>
    /\ Len(response.results) <= hist.locals.limit
    /\ Len(response.results) = Len(hist.locals.picked)
    /\ \A k \in 1..Len(response.results) :
         /\ hist.locals.picked[k] \in Range(hist.locals.raw)
         /\ response.results[k].path = C_Documents[hist.locals.picked[k]].path
         /\ response.results[k].name = C_Documents[hist.locals.picked[k]].name
         /\ response.results[k].category = C_Documents[hist.locals.picked[k]].category
         /\ C_CategoryOk(response.results[k])
         /\ C16_InRange(C_Documents[hist.locals.picked[k]])
    /\ \A k \in 1..(Len(response.results) - 1) :
         \/ response.results[k].score < response.results[k + 1].score
         \/ /\ response.results[k].score = response.results[k + 1].score
            /\ C17_RawPosition(hist.locals.picked[k]) < C17_RawPosition(hist.locals.picked[k + 1])

\* a request with limit 2 and a category filter got 2 results of different
\* scores although more candidates passed the filter
C17_Witness ==
  /\ C_Searched
  /\ hist.locals.limit = 2
  /\ hist.locals.categoryFilter = {"Sessions"}
  /\ Len(response.results) = 2
  /\ response.results[1].score < response.results[2].score
  /\ Cardinality({i \in Range(hist.locals.raw) : C_CategoryOk(C_Documents[i])}) > 2

\* the indexed documents that match the query in the engine and pass the
\* category and date filters
C18_Eligible ==
  {i \in 1..Len(C_Documents) :
     /\ FuseDistance(C_Documents[i]) # NO_MATCH
     /\ C_CategoryOk(C_Documents[i])
     /\ C16_InRange(C_Documents[i])}

\* C18: the response holds `limit` results whenever at least `limit`
\* indexed documents match the query and pass the filters, and all of them
\* whenever fewer do.
C18_EnoughCandidates ==
  C_Searched =>
    IF Cardinality(C18_Eligible) >= hist.locals.limit
    THEN Len(response.results) = hist.locals.limit
    ELSE Range(hist.locals.picked) = C18_Eligible

\* the resolved path lies in none of the configured directories
C19_Outside(p) ==
  \A root \in {WORKSPACE_ROOT, MEMORY_DIR, CONVERSATIONS_DIR, SESSIONS_DIR} :
    ~(Len(p) >= Len(root) /\ SubSeq(p, 1, Len(root)) = root)

\* C19: a content request whose path, after resolving "." and ".."
\* segments, lies outside the workspace root, memory, conversations and
\* sessions directories gets one and the same 403 response, whether or not
\* a file exists there: never 404, never content.
C19_TraversalRejected ==
  (/\ request.t = "content"
   /\ request.path # NoPath
   /\ C19_Outside(Resolve(request.path))) =>
    response = Response(403, "Invalid path", <<>>, TRUE)

\* a file that exists next to the workspace was requested through ".."
\* segments below the memory directory and refused
C19_Witness ==
  /\ request.t = "content"
  /\ request.path = PathArg(TRUE, MEMORY_DIR \o <<PARENT, PARENT, <<"x", DOT, "md">> >>)
  /\ Resolve(request.path) = F_outside
  /\ F_outside \in fs
  /\ response.status = 403

\* C20: a rebuild in which a subscriber threw leaves a complete snapshot
\* (version, time and files of one rebuild), never lowers the version, and
\* leaves the service running, so that a later relevant event arms the
\* rebuild timer again.
C20_FailedRebuildHarmless ==
  /\ [](hist.threw =>
          /\ snapshot.version \in DOMAIN hist.published
          /\ [updatedAt |-> snapshot.updatedAt, files |-> Deref(heap, snapshot.files)]
               = hist.published[snapshot.version]
          /\ constructed)
  /\ [][/\ snapshot'.version >= snapshot.version
        /\ hist.threw /\ RelevantEventStep => timers' # {}]_vars

\* the transcript files with a message document in an index
C21_Contributing(index) ==
  {index.documents[i].path :
     i \in {j \in 1..Len(index.documents) : index.documents[j].kind = "session"}}

\* C21: in every built recall index, totalIndexedSessions is the number of
\* transcript files with at least one message document in the index, and
\* totalIndexedFiles is the number of markdown documents in the index.
C21_IndexTotals ==
  \A id \in DOMAIN indexHeap :
    /\ indexHeap[id].totalIndexedSessions = Cardinality(C21_Contributing(indexHeap[id]))
    /\ indexHeap[id].totalIndexedFiles =
         Cardinality({j \in 1..Len(indexHeap[id].documents) :
                        indexHeap[id].documents[j].kind = "markdown"})

\* the catalog holds a node for path p with the given category
C22_Catalogued(p, category) ==
  \E i \in 1..Len(snapshot.files) :
    heap[snapshot.files[i]].path = p /\ heap[snapshot.files[i]].category = category

\* the non-hidden '.md' files on disk at any depth beneath a directory
C22_MarkdownBeneath(root) ==
  {p \in fs : UnderRoot(p, root) /\ EndsWith(basename(p), MD_EXT) /\ ~isHidden(basename(p))}

\* C22: once the rebuild for the last change has run, the catalog holds
\* every non-hidden '.md' file at any depth beneath the memory directory
\* with category Memory and every such file beneath the conversations
\* directory with category Conversations.
C22_RecursiveScan ==
  (constructed /\ timers = {}) =>
    /\ \A p \in C22_MarkdownBeneath(MEMORY_DIR) : C22_Catalogued(p, "Memory")
    /\ \A p \in C22_MarkdownBeneath(CONVERSATIONS_DIR) : C22_Catalogued(p, "Conversations")

\* C30: every path that a scan has put in the catalog is relevant for
\* isTrackedFile, so that no event for a catalogued file is dropped.
C30_FilterCoversScanner ==
  \A i \in 1..Len(snapshot.files) : isTrackedFile(heap[snapshot.files[i]].path)

\* C29: when a relevant event has armed the rebuild timer and relevant
\* events stop arriving, the rebuild of that burst eventually runs and no
\* timer stays pending; a pending timer goes away only in a step that
\* publishes a greater version, never by being cancelled without a
\* replacement.
C29_RebuildLiveness ==
  /\ (timers # {}) ~> (timers = {} /\ hist.burstRebuilds = 1)
  /\ [][timers # {} /\ timers' = {} => snapshot'.version > snapshot.version]_vars

\* a burst of two events has been answered by its rebuild
C29_Witness ==
  /\ hist.burstEvents >= 2
  /\ hist.burstRebuilds = 1
  /\ timers = {}
  /\ snapshot.version >= 2

\* ---- transcripts

\* the record of a line holds a message of a user or an assistant with text
Contributes(line) ==
  /\ line.json = "object"
  /\ line.type = "message"
  /\ line.message.role \in {"user", "assistant"}
  /\ extractMessageText(line.message.content) # <<>>

\* the text, timestamp and context window of every document
C24_Fields(documents) ==
  [i \in 1..Len(documents) |->
     [text |-> documents[i].content, timestampMs |-> documents[i].timestampMs,
      context |-> documents[i].contextSource]]

C24_Items == [i \in 1..Len(response.results) |-> response.results[i].item]

\* the lines of the request that contribute, by line number
C24_KeptLines == SelectIdx([i \in 1..Len(request.lines) |-> i],
                           {i \in 1..Len(request.lines) : Contributes(request.lines[i])}, 1)

\* C24: bad transcript lines never abort a file.  The documents of a
\* transcript (text, timestamp, context window, the role being the label in
\* the window) are those of the transcript without its unparseable lines,
\* non-message records, records of other roles and records without text;
\* there is one document per record of type 'message' with role user or
\* assistant and non-empty extracted text, in file order, and no other.
C24_BadLinesSkipped ==
  (request.t = "transcript" /\ response.status = 200) =>
    /\ C24_Fields(C24_Items)
         = C24_Fields(SessionDocuments(ParseMessages(SelectSeq(request.lines, Contributes)),
                                       F_sess, basename(F_sess)))
    /\ Len(C24_Items) = Len(C24_KeptLines)
    /\ \A i \in 1..Len(C24_Items) :
         /\ C24_Items[i].id.line = C24_KeptLines[i]
         /\ C24_Items[i].content = extractMessageText(request.lines[C24_KeptLines[i]].message.content)

\* a message, a line that is not JSON, a tool result and a second message:
\* two documents
C24_Witness ==
  /\ request.t = "transcript"
  /\ response.status = 200
  /\ Len(request.lines) = 3
  /\ request.lines[2] = InvalidLine
  /\ Len(response.results) = 2
  /\ response.results[2].item.id.line = 3

\* the window around position i of the n contributing lines `kept`, from
\* position j on: parts separated by a blank line
RECURSIVE C23_Window(_, _, _, _)
C23_Window(kept, i, j, last) ==
  IF j > last THEN <<>>
  ELSE (IF j = i THEN MARKER ELSE <<>>)
         \o (IF kept[j].message.role = "user" THEN USER_LABEL ELSE ASSISTANT_LABEL)
         \o <<":", " ">> \o extractMessageText(kept[j].message.content)
         \o (IF j < last THEN <<"\n", "\n">> ELSE <<>>)
         \o C23_Window(kept, i, j + 1, last)

C23_Expected(kept, i) ==
  C23_Window(kept, i, IF i - 2 < 1 THEN 1 ELSE i - 2,
             IF i + 2 > Len(kept) THEN Len(kept) ELSE i + 2)

\* C23: session context window.  The context source of the message at
\* position i of the n indexed messages is made of the messages at positions
\* i-2 .. i+2 (as far as they exist) in file order, each with the label of
\* its role, the marker on message i and on no other; that window is the
\* context returned for the document, whatever the match offset.
C23_SessionContextWindow ==
  (request.t = "transcript" /\ response.status = 200) =>
    \A i \in 1..Len(response.results) :
      /\ response.results[i].item.contextSource
           = C23_Expected(SelectSeq(request.lines, Contributes), i)
      /\ Cardinality({k \in 1..Len(response.results[i].item.contextSource) :
                        response.results[i].item.contextSource[k] = MARKER[1]}) = 1
      /\ response.results[i].context = response.results[i].item.contextSource

\* six messages of both roles and a broken line, matched away from offset 0:
\* the window of the third message leaves out the sixth, that of the fourth
\* the first
C23_Witness ==
  /\ request.t = "transcript"
  /\ request.matchIndex > 0
  /\ Len(response.results) = 6
  /\ \E i \in 1..Len(request.lines) : request.lines[i] = InvalidLine
  /\ response.results[1].item.content # response.results[6].item.content

\* ---- excerpts and contexts

C_Extracted == request.t = "extract" /\ response.status = 200

\* the number signs at the start of the line at offset p
C_Hashes(content, p) == RunLength(content, p, {"#"}, MAX_HEADING_LEVEL + 1)

\* the line at offset p is a heading: one to six number signs, a blank, and
\* text before the end of the line
C_IsHeading(content, p) ==
  /\ p = 0 \/ content[p] = "\n"
  /\ C_Hashes(content, p) \in 1..MAX_HEADING_LEVEL
  /\ p + C_Hashes(content, p) < Len(content)
  /\ content[p + C_Hashes(content, p) + 1] \in {" ", "\t"}
  /\ \E q \in (p + C_Hashes(content, p))..(LineEnd(content, p) - 1) :
       content[q + 1] \notin WHITESPACE

\* a line of number signs with nothing but whitespace after them
C_IsBare(content, p) ==
  /\ p = 0 \/ content[p] = "\n"
  /\ C_Hashes(content, p) \in 1..MAX_HEADING_LEVEL
  /\ p + C_Hashes(content, p) < Len(content)
  /\ \A q \in (p + C_Hashes(content, p))..(LineEnd(content, p) - 1) :
       content[q + 1] \in WHITESPACE

C_HeadingStarts(content) == {p \in 0..(Len(content) - 1) : C_IsHeading(content, p)}

\* the match is in a markdown document whose heading lines all hold text,
\* at or after its first heading
C_InSection ==
  /\ C_Extracted
  /\ request.item.kind = "markdown"
  /\ \A p \in 0..(Len(request.item.content) - 1) : ~C_IsBare(request.item.content, p)
  /\ \E p \in C_HeadingStarts(request.item.content) : p <= response.results[1].matchIndex

\* the section of the heading at `active`: up to the next heading that is
\* not deeper, or to the end of the document
C_SectionFrom(content, active) ==
  Trim(StringSlice(content, active,
                   SetMin({Len(content)}
                            \cup {p \in C_HeadingStarts(content) :
                                    p > active /\ C_Hashes(content, p) <= C_Hashes(content, active)})))

\* the nearest heading at or before the offset
C_Active(content, matchIndex) == SetMax({p \in C_HeadingStarts(content) : p <= matchIndex})

C_Section(content, matchIndex) == C_SectionFrom(content, C_Active(content, matchIndex))

C26_Short(section) == LineEnd(section, 0) = Len(section) \/ Len(section) < MIN_PARAGRAPH_CHARS

\* where the section of the match ends
C26_End(content, matchIndex) ==
  SetMin({Len(content)}
           \cup {p \in C_HeadingStarts(content) :
                   /\ p > C_Active(content, matchIndex)
                   /\ C_Hashes(content, p) <= C_Hashes(content, C_Active(content, matchIndex))})

\* C26: look-ahead merge for short sections.  When the section extracted
\* for a markdown match is its heading alone or shorter than 80 characters
\* and a section follows it, the returned context also contains the text of
\* that following section.
C26_LookAheadMerge ==
  (/\ C_InSection
   /\ response.results[1].section # NoSection
   /\ C26_Short(response.results[1].section)
   /\ C26_End(request.item.content, response.results[1].matchIndex) < Len(request.item.content))
  => Occurrences(response.results[1].result.context,
                 C_SectionFrom(request.item.content,
                               C26_End(request.item.content, response.results[1].matchIndex))) # {}

\* what the context is cut from: the window of a session document, the
\* section of a markdown document, or the paragraph around the offset
C27_Source ==
  IF request.item.kind = "session"
  THEN (IF request.item.contextSource # <<>> THEN request.item.contextSource
        ELSE request.item.content)
  ELSE IF response.results[1].section # NoSection THEN response.results[1].section
  ELSE extractMarkdownParagraph(request.item.content, response.results[1].matchIndex)

\* C27: context size bound.  The returned context is trimmed; it is the
\* whole trimmed source when that has at most 2200 characters, and otherwise
\* at most 2200 characters from the start of it followed by "...".  A section
\* of more than 2500 characters is not the source: the context is then cut
\* from the paragraph extraction around the match offset.
C27_ContextBound ==
  C_Extracted =>
    /\ response.results[1].result.context = Trim(response.results[1].result.context)
    /\ IF Len(Trim(C27_Source)) <= MAX_CONTEXT_CHARS
       THEN response.results[1].result.context = Trim(C27_Source)
       ELSE /\ Len(response.results[1].result.context) <= MAX_CONTEXT_CHARS + Len(ELLIPSIS)
            /\ response.results[1].result.context
                 = SubSeq(Trim(C27_Source), 1,
                          Len(response.results[1].result.context) - Len(ELLIPSIS)) \o ELLIPSIS
    /\ (C_InSection
         /\ Len(C_Section(request.item.content, response.results[1].matchIndex)) > MAX_SECTION_CHARS)
       => response.results[1].section = NoSection
    /\ (request.item.kind = "markdown" /\ response.results[1].section # NoSection)
       => Len(response.results[1].section) <= MAX_SECTION_CHARS

\* a section one character too long: the context is a paragraph of it; and
\* a section of the full size: the context is its first 2200 characters
C27_Witness ==
  /\ C_InSection
  /\ request.item = MarkdownItem(D_section(1))
  /\ response.results[1].section = NoSection
  /\ Len(response.results[1].result.context) \in 1..MAX_CONTEXT_CHARS

C27_WitnessTruncated ==
  /\ C_InSection
  /\ request.item = MarkdownItem(D_section(0))
  /\ Len(response.results[1].section) = MAX_SECTION_CHARS
  /\ Len(response.results[1].result.context) = MAX_CONTEXT_CHARS + Len(ELLIPSIS)

\* the excerpt without its ellipses
C28_Body(excerpt, hasPrefix, hasSuffix) ==
  SubSeq(excerpt, IF hasPrefix THEN Len(ELLIPSIS) + 1 ELSE 1,
         IF hasSuffix THEN Len(excerpt) - Len(ELLIPSIS) ELSE Len(excerpt))

\* the window [start, end) of the content can have this body: its first
\* and last characters other than whitespace are those of the body
C28_Fits(content, start, end, body) ==
  /\ Len(body) <= end - start
  /\ body # <<>> =>
       /\ content[start + 1] \in WHITESPACE \cup {body[1]}
       /\ content[end] \in WHITESPACE \cup {body[Len(body)]}

\* the excerpt shows a window of the content around the offset
C28_IsWindow(content, safeIndex, excerpt, hasPrefix, hasSuffix) ==
  \E start \in 0..safeIndex :
    /\ hasPrefix <=> start > 0
    /\ \E end \in (safeIndex + 1)..Min2(Len(content), start + MAX_EXCERPT_CHARS) :
         /\ hasSuffix <=> end < Len(content)
         /\ C28_Fits(content, start, end, C28_Body(excerpt, hasPrefix, hasSuffix))
         /\ C28_Body(excerpt, hasPrefix, hasSuffix)
              = Trim(CollapseWhitespace(StringSlice(content, start, end)))

C28_Excerpt(content, matchIndex, excerpt) ==
  IF content = <<>> THEN excerpt = <<>>
  ELSE IF Len(content) <= MAX_EXCERPT_CHARS THEN excerpt = Trim(CollapseWhitespace(content))
  ELSE C28_IsWindow(content, Min2(Max2(matchIndex, 0), Len(content) - 1), excerpt,
                    StartsWith(excerpt, ELLIPSIS), EndsWith(excerpt, ELLIPSIS))

\* C28: excerpt boundaries.  Offsets count in the trimmed content.  Content
\* of at most 300 characters gives the whole content with its whitespace
\* collapsed and no ellipsis; longer content gives a window of at most 300
\* characters that contains the match offset (clamped into the content),
\* with "..." before it iff it does not start at the beginning and "..."
\* after it iff it does not reach the end; a match at offset 0 has no
\* leading ellipsis and has a trailing one.
C28_ExcerptBoundaries ==
  C_Extracted =>
    /\ C28_Excerpt(Trim(request.item.content), response.results[1].matchIndex,
                   response.results[1].result.excerpt)
    /\ (Len(Trim(request.item.content)) > MAX_EXCERPT_CHARS /\ response.results[1].matchIndex = 0)
       => /\ ~StartsWith(response.results[1].result.excerpt, ELLIPSIS)
          /\ EndsWith(response.results[1].result.excerpt, ELLIPSIS)

\* a match in the middle of a long document: ellipses on both sides; and a
\* match at its start
C28_Witness ==
  /\ C_Extracted
  /\ Len(Trim(request.item.content)) > MAX_CONTEXT_CHARS
  /\ response.results[1].matchIndex = 1400
  /\ StartsWith(response.results[1].result.excerpt, ELLIPSIS)
  /\ EndsWith(response.results[1].result.excerpt, ELLIPSIS)
  /\ Len(response.results[1].result.excerpt) > MAX_EXCERPT_CHARS

====
